---- MODULE Spec2Model ----
(***************************************************************************)
(* kopsha/chatty-patty: the Renko brick tracker OpenTrader                 *)
(* (src/src/open_trader.py): feed, make_renko_bricks, digest_data_point    *)
(* and strategy_eval, fed by the windows of bars its caller fetches; its   *)
(* cache file (write_to, read_from); and the program around it:            *)
(* PositionBroker.from_order and react (src/src/position_broker.py) under  *)
(* the Seeker's fast task and error_resilient (src/src/main.py).           *)
(* Further: the HastyClient, the PinkyTracker of the scanner               *)
(* (src/src/thinker/tracer.py), the Seeker's shutdown (main, _loop, the    *)
(* scheduler and its jobs) and TellyPatty.digest_updates                   *)
(* (src/tellypatty.py).                                                    *)
(*                                                                         *)
(* Prices are Decimals; the model holds them as integers counting halves   *)
(* of PRECISION (0.00005), so 100.00 is 2000000, a price of four decimal   *)
(* places is an even integer and one of five places ending in 5 an odd     *)
(* one. Every Decimal sum, difference and comparison of the code is the    *)
(* integer one.                                                            *)
(***************************************************************************)
EXTENDS Integers, Sequences, FiniteSets, TLC

VARIABLES
    data,         \* OpenTrader.data: deque of CandleStick, newest last
    bounded,      \* whether OpenTrader.data has maxlen = MAXLEN (or none)
    brick_size,   \* OpenTrader.brick_size
    renko_state,  \* OpenTrader.renko_state
    bricks,       \* OpenTrader.bricks
    trend,        \* OpenTrader.trend: "None", "UP" or "DOWN"
    strength,     \* OpenTrader.strength
    breakout,     \* OpenTrader.breakout
    market,       \* environment: the bars the exchange has published, oldest first
    call,         \* history: the last feed call (argument, result, state before)
    ev,           \* history: the last strategy_eval call made on its own
    symbol,       \* OpenTrader.symbol
    cache,        \* the files of PositionBroker.CACHE, by file name
    err_count,    \* Seeker.err_count
    keep_running, \* Seeker.keep_running
    io,           \* history: the last from_order (the file found, the outcome)
    cycle,        \* history: the last fast_task (the bars, the outcome)
    pc,           \* of each task of the event loop: the step it is suspended in
    local,        \* of each task: its local variables
    session,      \* HastyClient.session: how often each of its methods was called
    access,       \* history: the last attribute access or REST call on the client
    pinky,        \* PinkyTracker: data, price, last_timestamp
    pcache,       \* the cache file of the PinkyTracker's symbol
    scan,         \* history: the last call made on the PinkyTracker
    scheduler,    \* Seeker.scheduler: its state
    coro,         \* of main, _loop and the scheduler's jobs: where each is
    halt,         \* history: the stops, failures and closes of the Seeker
    patty,        \* TellyPatty: last_update_id, keep_alive, watchlist
    telly         \* history: the last digest_updates (the updates, the replies)

vars == <<data, bounded, brick_size, renko_state, bricks, trend, strength, breakout,
          market, call, ev, symbol, cache, err_count, keep_running, io, cycle,
          pc, local, session, access, pinky, pcache, scan, scheduler, coro,
          halt, patty, telly>>

\* The tasks of the event loop.
taskVars == <<pc, local>>

\* The HastyClient.
hastyVars == <<session, access>>

\* The PinkyTracker of the scanner.
pinkyVars == <<pinky, pcache, scan>>

\* The Seeker's scheduler and coroutines.
stopVars == <<scheduler, coro, halt>>

\* The TellyPatty.
tellyVars == <<patty, telly>>

\* What the Seeker's tracker and tasks leave as it is.
sideVars == <<hastyVars, pinkyVars, stopVars, tellyVars>>

\* What the Seeker's scheduler and the TellyPatty leave as it is.
tradeVars ==
    <<data, bounded, brick_size, renko_state, bricks, trend, strength, breakout,
      market, call, ev, symbol, cache, io, cycle, taskVars, hastyVars,
      pinkyVars>>

\* What a call made on the tracker alone leaves as it is.
seekerVars ==
    <<symbol, cache, err_count, keep_running, io, cycle, taskVars, sideVars>>

-----------------------------------------------------------------------------
(* Bounds of the model *)

\* Bars the exchange publishes in one run.
MaxTime == 4

\* Bars one fetch window can hold.
MaxBatch == 2

\* Bars the exchange publishes in one run of the scenario.
ScenarioLen == 5

\* strategy_eval is not stepped once strength has reached this.
MaxStrength == 250

\* Times the program is started in one run.
MaxStarts == 2

-----------------------------------------------------------------------------
(* Program constants *)

\* PRECISION = Decimal(".0001"), in the halves the model counts prices in.
PRECISION == 2

\* MAXLEN = 15 * 30, the capacity of the deque.
MAXLEN == 450

HOLD == "HOLD"
BUY == "BUY"
SELL == "SELL"
UP == "UP"
DOWN == "DOWN"
None == "None"

\* as_signal with the two signals exchanged.
as_signal_Swapped(t) == IF t = UP THEN SELL ELSE BUY

\* MarketTrend.as_signal
as_signal(t) == IF t = UP THEN BUY ELSE SELL

\* REVERSE = {UP: DOWN, DOWN: UP}
REVERSE(t) == IF t = UP THEN DOWN ELSE UP

-----------------------------------------------------------------------------
(* Inputs: the bars of the market *)

\* Closing prices a bar can have: 0.1248, 0.1250 and 0.12525.
Closes == {2496, 2500, 2505}

\* Half of high - low of a bar: a bar with high = low, and one with
\* high - low = 0.0006.
HalfRanges == {0, 6}

\* The bars of the scenario of the specification (section 8, property 7):
\* closes 100.00 first, then 100.50, 101.20, 102.30, 101.90 in any order, each
\* bar with high - low = 2.00, so that the first feed calibrates
\* brick_size = 1.00 and seeds high = low = 100.00.
ScenarioSeeds == {2000000}
ScenarioCloses == {2010000, 2024000, 2046000, 2038000}
ScenarioHalfRanges == {20000}

\* CandleStick(timestamp, open, high, low, close, volume, trades).
CandleStick(ts, c, h) ==
    [timestamp |-> ts, open |-> c - h, high |-> c + h, low |-> c - h,
     close |-> c, volume |-> 0, trades |-> 0]

-----------------------------------------------------------------------------
(* Arithmetic of the code *)

Max(a, b) == IF a >= b THEN a ELSE b
Min(a, b) == IF a <= b THEN a ELSE b

\* n / d rounded to an integer, ties to even: Decimal.quantize under the
\* default context (ROUND_HALF_EVEN), for n >= 0 and d > 0.
RoundHalfEven(n, d) ==
    LET q == n \div d
        r == n % d
    IN IF 2 * r < d THEN q
       ELSE IF 2 * r > d THEN q + 1
       ELSE IF q % 2 = 0 THEN q ELSE q + 1

\* Decimal(n / d).quantize(PRECISION): the multiple of PRECISION nearest to
\* n / d, ties to the even multiple.
quantize(n, d) == PRECISION * RoundHalfEven(n, d * PRECISION)

\* The largest e with 3^e <= n, for n >= 1.
RECURSIVE FloorLog3(_)
FloorLog3(n) == IF n < 3 THEN 0 ELSE 1 + FloorLog3(n \div 3)

\* The integers n below 3000 at which the binary64 quotient ln(n) / ln(3)
\* that math.log(n, 3) computes falls below the exact logarithm's integer
\* value: ln(243) / ln(3) = 5.493061443340549 / 1.0986122886681098 rounds to
\* 4.999999999999999. At every other n below 3000 truncating the quotient
\* gives the exact floor.
Log3RoundsBelow == {243}

\* int(math.log(n, 3)) for an integer n >= 1.
IntMathLog3(n) ==
    IF n \in Log3RoundsBelow THEN FloorLog3(n) - 1 ELSE FloorLog3(n)

\* The largest e with 10^e <= n, for n >= 1.
RECURSIVE FloorLog10(_)
FloorLog10(n) == IF n < 10 THEN 0 ELSE 1 + FloorLog10(n \div 10)

\* zone_log with the logarithm taken to base 10 instead of 3.
zone_log_Base10(x) == IF x > 1 THEN FloorLog10(x - 1) ELSE 0

\* zone_log with one more brick tolerated.
zone_log_OneMore(x) == IF x > 1 THEN IntMathLog3(x - 1) + 1 ELSE 1

\* strategy_eval.zone_log
zone_log(x) == IF x > 1 THEN IntMathLog3(x - 1) ELSE 0

-----------------------------------------------------------------------------
(* OpenTrader *)

\* RenkoState() as the class declares it; last_index (datetime.now) is 0.
RenkoStateDefault ==
    [last_index |-> 0, high |-> 0, low |-> 0, int_high |-> 0, int_low |-> 0,
     abs_high |-> 0, abs_low |-> 0]

\* OpenTrader(symbol=...): the fields of a new tracker, data being the empty
\* deque(maxlen=MAXLEN) its default factory names.
NewTrader ==
    [data |-> <<>>, brick_size |-> PRECISION, renko_state |-> RenkoStateDefault,
     bricks |-> <<>>, trend |-> None, strength |-> 0, breakout |-> 0,
     bounded |-> TRUE]

\* The tracker the variables hold.
Tracker ==
    [data |-> data, brick_size |-> brick_size, renko_state |-> renko_state,
     bricks |-> bricks, trend |-> trend, strength |-> strength,
     breakout |-> breakout, bounded |-> bounded]

\* The counting step without strength += 1.
CountBrick_StrengthKept(t, brick) ==
    IF brick.direction = t.trend
    THEN [t EXCEPT !.breakout = 0]
    ELSE [t EXCEPT !.breakout = @ + 1]

\* The counting step with a brick against the trend taken off strength.
CountBrick_StrengthSpent(t, brick) ==
    IF brick.direction = t.trend
    THEN [t EXCEPT !.strength = @ + 1, !.breakout = 0]
    ELSE [t EXCEPT !.strength = @ - 1, !.breakout = @ + 1]

\* strategy_eval, the counting step: a brick with the trend adds to strength
\* and clears breakout, a brick against it adds to breakout.
CountBrick(t, brick) ==
    IF brick.direction = t.trend
    THEN [t EXCEPT !.strength = @ + 1, !.breakout = 0]
    ELSE [t EXCEPT !.breakout = @ + 1]

\* strategy_eval(brick): the tracker after it and the signal returned.
strategy_eval(t, brick) ==
    LET t1 == IF t.trend = None THEN [t EXCEPT !.trend = brick.direction] ELSE t
        t2 == CountBrick(t1, brick)
        allowed == zone_log(t2.strength)
    IN IF t2.breakout > allowed
       THEN [t |-> [t2 EXCEPT !.trend = REVERSE(t2.trend),
                              !.strength = t2.breakout,
                              !.breakout = 0],
             signal |-> as_signal(REVERSE(t2.trend))]
       ELSE [t |-> t2, signal |-> HOLD]

\* brick_diff of one brick whatever the distance.
brick_diff_OneBrick(distance, size) == size

\* brick_diff without the truncation to whole bricks.
brick_diff_Untruncated(distance, size) == distance

\* digest_data_point, brick_diff: the whole bricks in a distance.
brick_diff(distance, size) == (distance \div size) * size

\* The bullish brick opened at the low boundary instead of the high one.
BullishBrick_OpensAtLow(s1, diff) ==
    [time |-> s1.last_index, open |-> s1.low, high |-> s1.int_high,
     low |-> s1.int_low, close |-> s1.high + diff, direction |-> UP]

\* digest_data_point, the bullish RenkoBrick built on state s1.
BullishBrick(s1, diff) ==
    [time |-> s1.last_index, open |-> s1.high, high |-> s1.int_high,
     low |-> s1.int_low, close |-> s1.high + diff, direction |-> UP]

\* digest_data_point, the bearish RenkoBrick built on state s1.
BearishBrick(s1, diff) ==
    [time |-> s1.last_index, open |-> s1.low, high |-> s1.int_high,
     low |-> s1.int_low, close |-> s1.low - diff, direction |-> DOWN]

\* digest_data_point(row): the renko_state after it and the bricks it returns.
digest_data_point(rs, size, row) ==
    LET ih == Max(rs.int_high, row.high)
        il == Min(rs.int_low, row.low)
        s1 == [rs EXCEPT !.int_high = ih, !.int_low = il,
                         !.abs_high = Max(ih, rs.abs_high),
                         !.abs_low = Min(il, rs.abs_low)]
    IN IF row.close >= s1.high + size
       THEN LET diff == brick_diff(row.close - s1.high, size)
            IN [rs |-> [s1 EXCEPT !.low = s1.high,
                                  !.high = s1.high + diff,
                                  !.last_index = row.timestamp,
                                  !.int_high = row.close,
                                  !.int_low = row.close],
                new_bricks |-> << BullishBrick(s1, diff) >>]
       ELSE IF row.close <= s1.low - size
       THEN LET diff == brick_diff(s1.low - row.close, size)
            IN [rs |-> [s1 EXCEPT !.high = s1.low,
                                  !.low = s1.low - diff,
                                  !.last_index = row.timestamp,
                                  !.int_high = row.close,
                                  !.int_low = row.close],
                new_bricks |-> << BearishBrick(s1, diff) >>]
       ELSE [rs |-> s1, new_bricks |-> <<>>]

\* make_renko_bricks(sticks): the renko_state after the last stick, the bricks
\* returned, and (history) what each stick's digest_data_point saw and
\* returned and the boundaries it left.
RECURSIVE make_renko_bricks(_, _, _)
make_renko_bricks(rs, size, sticks) ==
    IF sticks = <<>> THEN [rs |-> rs, bricks |-> <<>>, digests |-> <<>>]
    ELSE LET d == digest_data_point(rs, size, Head(sticks))
             rest == make_renko_bricks(d.rs, size, Tail(sticks))
         IN [bricks |-> d.new_bricks \o rest.bricks,
             digests |-> << [high |-> rs.high, low |-> rs.low,
                             close |-> Head(sticks).close,
                             new_bricks |-> d.new_bricks,
                             next_high |-> d.rs.high,
                             next_low |-> d.rs.low] >> \o rest.digests,
             rs |-> rest.rs]

\* The loop of feed collecting only the signals that are not HOLD.
RECURSIVE EvalBricks_HoldsDropped(_, _)
EvalBricks_HoldsDropped(t, new_bricks) ==
    IF new_bricks = <<>> THEN [t |-> t, signals |-> <<>>, trends |-> <<>>]
    ELSE LET e == strategy_eval([t EXCEPT !.bricks = Append(@, Head(new_bricks))],
                                Head(new_bricks))
             rest == EvalBricks_HoldsDropped(e.t, Tail(new_bricks))
         IN [t |-> rest.t,
             signals |-> (IF e.signal = HOLD THEN <<>> ELSE <<e.signal>>)
                         \o rest.signals,
             trends |-> <<e.t.trend>> \o rest.trends]

\* The loop of feed keeping only the newest brick in self.bricks.
RECURSIVE EvalBricks_NewestKept(_, _)
EvalBricks_NewestKept(t, new_bricks) ==
    IF new_bricks = <<>> THEN [t |-> t, signals |-> <<>>, trends |-> <<>>]
    ELSE LET e == strategy_eval([t EXCEPT !.bricks = <<Head(new_bricks)>>],
                                Head(new_bricks))
             rest == EvalBricks_NewestKept(e.t, Tail(new_bricks))
         IN [t |-> rest.t,
             signals |-> <<e.signal>> \o rest.signals,
             trends |-> <<e.t.trend>> \o rest.trends]

\* The loop of feed over the new bricks: append, strategy_eval, collect the
\* signal. History: trends, the trend after each brick's strategy_eval.
RECURSIVE EvalBricks(_, _)
EvalBricks(t, new_bricks) ==
    IF new_bricks = <<>> THEN [t |-> t, signals |-> <<>>, trends |-> <<>>]
    ELSE LET e == strategy_eval([t EXCEPT !.bricks = Append(@, Head(new_bricks))],
                                Head(new_bricks))
             rest == EvalBricks(e.t, Tail(new_bricks))
         IN [t |-> rest.t,
             signals |-> <<e.signal>> \o rest.signals,
             trends |-> <<e.t.trend>> \o rest.trends]

\* deque(maxlen=MAXLEN).extend: the newest MAXLEN elements stay.
Extend(dq, new) ==
    LET all == dq \o new
    IN IF Len(all) <= MAXLEN THEN all
       ELSE SubSeq(all, Len(all) - MAXLEN + 1, Len(all))

RECURSIVE SumRange(_)
SumRange(sticks) ==
    IF sticks = <<>> THEN 0
    ELSE (Head(sticks).high - Head(sticks).low) + SumRange(Tail(sticks))

\* The brick size with a floor of half of PRECISION under it.
HalfAverage_FloorHalved(sticks) ==
    LET total == SumRange(sticks)
        n == Len(sticks)
    IN IF total < 2 * n * PRECISION THEN PRECISION \div 2
       ELSE quantize(total, 2 * n)

\* Decimal(max(mean(high - low) / 2, PRECISION)).quantize(PRECISION), for a
\* non-empty list.
HalfAverage(sticks) ==
    LET total == SumRange(sticks)
        n == Len(sticks)
    IN IF total < 2 * n * PRECISION THEN PRECISION
       ELSE quantize(total, 2 * n)

\* The timestamp filter with >= in place of >.
NewSticks_NotOlder(t, sticks) ==
    LET last_time == t.data[Len(t.data)].timestamp
    IN SelectSeq(sticks, LAMBDA sti : sti.timestamp >= last_time)

\* The timestamp filter of feed on a tracker that holds bars.
NewSticks(t, sticks) ==
    LET last_time == t.data[Len(t.data)].timestamp
    IN SelectSeq(sticks, LAMBDA sti : sti.timestamp > last_time)

\* The first branch of feed on a tracker that holds no bar: brick size and
\* renko state from the batch.
Calibrated(t, sticks) ==
    LET first == sticks[1]
    IN [t EXCEPT !.brick_size = HalfAverage(sticks),
                 !.renko_state =
                     [high |-> first.close, low |-> first.close,
                      int_high |-> first.close, int_low |-> first.close,
                      abs_high |-> first.high, abs_low |-> first.low,
                      last_index |-> first.timestamp]]

\* The branch of feed taken whatever the tracker holds.
Prepared_EveryCall(t, sticks) == Calibrated(t, sticks)

\* feed, `if self.data`: a tracker that holds bars is left as it is, one that
\* holds none is calibrated from the batch.
Prepared(t, sticks) == IF t.data # <<>> THEN t ELSE Calibrated(t, sticks)

\* feed(sticks): the tracker after it, the signals returned, whether it raised
\* (statistics.mean of no data, first[0] of an empty list), and the history of
\* its digests.
feed(t, sticks) ==
    IF t.data = <<>> /\ sticks = <<>>
    THEN [t |-> t, signals |-> <<>>, raised |-> TRUE, digests |-> <<>>,
          trends |-> <<>>]
    ELSE LET new_sticks == IF t.data # <<>> THEN NewSticks(t, sticks) ELSE sticks
             t1 == Prepared(t, sticks)
         IN IF new_sticks = <<>>
            THEN [t |-> t1, signals |-> <<>>, raised |-> FALSE, digests |-> <<>>,
                  trends |-> <<>>]
            ELSE LET m == make_renko_bricks(t1.renko_state, t1.brick_size, new_sticks)
                     t2 == [t1 EXCEPT !.data = IF t1.bounded
                                                THEN Extend(@, new_sticks)
                                                ELSE @ \o new_sticks,
                                      !.renko_state = m.rs]
                     e == EvalBricks(t2, m.bricks)
                 IN [t |-> e.t, signals |-> e.signals, raised |-> FALSE,
                     digests |-> m.digests, trends |-> e.trends]

-----------------------------------------------------------------------------
(* Persistence: write_to and read_from *)

\* Symbols the account can hold a position in.
Symbols == {"AAA", "BBB"}

\* The symbol the exchange publishes bars for during the run.
Listed == "AAA"

\* OpenTrader.interval, which no caller sets.
Interval == "1m"

\* OpenTrader.filename: f"{symbol}-{interval}-{MAXLEN}p".
filename(sym, itv) == <<sym, itv, MAXLEN>>

\* The file names the trackers of the run can have.
Filenames == { filename(sym, Interval) : sym \in Symbols }

\* json_encoders[Decimal], val.quantize(PRECISION), written to JSON: the
\* decimal with four places, held as the count of PRECISION it shows.
dump_decimal(v) == RoundHalfEven(v, PRECISION)

\* The Decimal that model_validate_json reads from the written number.
load_decimal(x) == x * PRECISION

dump_stick(b) ==
    [timestamp |-> b.timestamp, open |-> dump_decimal(b.open),
     high |-> dump_decimal(b.high), low |-> dump_decimal(b.low),
     close |-> dump_decimal(b.close), volume |-> dump_decimal(b.volume),
     trades |-> b.trades]

load_stick(j) ==
    [timestamp |-> j.timestamp, open |-> load_decimal(j.open),
     high |-> load_decimal(j.high), low |-> load_decimal(j.low),
     close |-> load_decimal(j.close), volume |-> load_decimal(j.volume),
     trades |-> j.trades]

dump_brick(b) ==
    [time |-> b.time, open |-> dump_decimal(b.open),
     high |-> dump_decimal(b.high), low |-> dump_decimal(b.low),
     close |-> dump_decimal(b.close), direction |-> b.direction]

load_brick(j) ==
    [time |-> j.time, open |-> load_decimal(j.open),
     high |-> load_decimal(j.high), low |-> load_decimal(j.low),
     close |-> load_decimal(j.close), direction |-> j.direction]

dump_state(rs) ==
    [last_index |-> rs.last_index,
     high |-> dump_decimal(rs.high), low |-> dump_decimal(rs.low),
     int_high |-> dump_decimal(rs.int_high), int_low |-> dump_decimal(rs.int_low),
     abs_high |-> dump_decimal(rs.abs_high), abs_low |-> dump_decimal(rs.abs_low)]

load_state(j) ==
    [last_index |-> j.last_index,
     high |-> load_decimal(j.high), low |-> load_decimal(j.low),
     int_high |-> load_decimal(j.int_high), int_low |-> load_decimal(j.int_low),
     abs_high |-> load_decimal(j.abs_high), abs_low |-> load_decimal(j.abs_low)]

\* self.model_dump_json(): every field of the tracker, each Decimal through
\* the encoder.
model_dump_json(t, sym) ==
    [symbol |-> sym,
     data |-> [i \in 1..Len(t.data) |-> dump_stick(t.data[i])],
     brick_size |-> dump_decimal(t.brick_size),
     renko_state |-> dump_state(t.renko_state),
     bricks |-> [i \in 1..Len(t.bricks) |-> dump_brick(t.bricks[i])],
     trend |-> t.trend, strength |-> t.strength, breakout |-> t.breakout,
     interval |-> Interval]

\* OpenTrader.model_validate_json(json_data): the symbol and the fields read.
\* The Deque field is validated from the JSON list into deque(list), which
\* has no maxlen.
model_validate_json(j) ==
    [symbol |-> j.symbol,
     t |-> [data |-> [i \in 1..Len(j.data) |-> load_stick(j.data[i])],
            brick_size |-> load_decimal(j.brick_size),
            renko_state |-> load_state(j.renko_state),
            bricks |-> [i \in 1..Len(j.bricks) |-> load_brick(j.bricks[i])],
            trend |-> j.trend, strength |-> j.strength,
            breakout |-> j.breakout,
            bounded |-> FALSE]]

\* A file name under which nothing is stored. History, in every file: origin,
\* the symbol and the fields of the tracker that wrote it.
NoFile ==
    [kind |-> "absent", body |-> model_dump_json(NewTrader, ""),
     origin |-> [symbol |-> "", t |-> NewTrader]]

\* A file that open(filepath, "wt") emptied and whose writing did not end.
TruncatedFile == [NoFile EXCEPT !.kind = "truncated"]

\* The file that write_to leaves when it succeeds.
WrittenFile(t, sym) ==
    [kind |-> "json", body |-> model_dump_json(t, sym),
     origin |-> [symbol |-> sym, t |-> t]]

\* What can happen to write_to's file: nothing, open() fails (permission
\* denied), or write() fails after open() emptied the file (disk full).
Faults == {"none", "open", "write"}

\* write_to(cache): the files after it and whether it raised.
write_to(t, sym, files, fault) ==
    IF t.data = <<>> THEN [files |-> files, raised |-> FALSE]
    ELSE IF fault = "open" THEN [files |-> files, raised |-> TRUE]
    ELSE IF fault = "write"
    THEN [files |-> [files EXCEPT ![filename(sym, Interval)] = TruncatedFile],
          raised |-> TRUE]
    ELSE [files |-> [files EXCEPT ![filename(sym, Interval)] = WrittenFile(t, sym)],
          raised |-> FALSE]

\* The lookup taking whatever snapshot the cache holds when the tracker's own
\* file is not there.
cached_AnyFile(sym, files) ==
    LET own == files[filename(sym, Interval)]
        there == { fn \in Filenames : files[fn].kind = "json" }
    IN IF own.kind = "absent" /\ there # {}
       THEN files[CHOOSE fn \in there : TRUE]
       ELSE own

\* read_from, filepath = cache / (self.filename + ".json"): the file there.
cached(sym, files) == files[filename(sym, Interval)]

\* read_from without the test of filepath.exists(): open() raises.
read_from_NoExistsTest(t, sym, files) ==
    LET found == cached(sym, files)
    IN IF found.kind # "json"
       THEN [t |-> t, symbol |-> sym, raised |-> TRUE, loaded |-> FALSE,
             found |-> found]
       ELSE LET new == model_validate_json(found.body)
            IN [t |-> new.t, symbol |-> new.symbol, raised |-> FALSE,
                loaded |-> TRUE, found |-> found]

\* read_from(cache): the fields and the symbol of the tracker after it,
\* whether it raised (model_validate_json on what is no JSON of a tracker),
\* whether it loaded a snapshot, and (history) the file it found.
read_from(t, sym, files) ==
    LET found == cached(sym, files)
    IN IF found.kind = "absent"
       THEN [t |-> t, symbol |-> sym, raised |-> FALSE, loaded |-> FALSE,
             found |-> found]
       ELSE IF found.kind # "json"
       THEN [t |-> t, symbol |-> sym, raised |-> TRUE, loaded |-> FALSE,
             found |-> found]
       ELSE LET new == model_validate_json(found.body)
            IN [t |-> new.t, symbol |-> new.symbol, raised |-> FALSE,
                loaded |-> TRUE, found |-> found]

-----------------------------------------------------------------------------
(* PositionBroker and the Seeker's fast task *)

\* ERR_TOLERANCE of main.py.
ERR_TOLERANCE == 3

\* PositionBroker.stop_loss_limit = Decimal("0.125").
stop_loss_limit == 2500

\* Bar of alpaca_client: the fields of the bar the exchange publishes.
Bar(ts, c, h) ==
    [timestamp |-> ts, open |-> c - h, high |-> c + h, low |-> c - h,
     close |-> c, volume |-> 0, trades |-> 0, vw_price |-> c]

\* A bar whose close did not arrive: to_stick drops the value that is not
\* truthy.
NoClose(bar) == [bar EXCEPT !.close = 0]

\* to_stick, CandleStick(**valid_data): the fields CandleStick requires are
\* all there (truthy) in valid_data.
Required(bar) ==
    /\ bar.timestamp # 0
    /\ bar.open # 0
    /\ bar.high # 0
    /\ bar.low # 0
    /\ bar.close # 0

\* to_stick(bar) for a bar with the required fields: the fields of
\* CandleStick, volume and trades at their defaults when not truthy.
to_stick(bar) ==
    [timestamp |-> bar.timestamp, open |-> bar.open, high |-> bar.high,
     low |-> bar.low, close |-> bar.close,
     volume |-> IF bar.volume # 0 THEN bar.volume ELSE 0,
     trades |-> IF bar.trades # 0 THEN bar.trades ELSE 0]

\* What react leaves when it raises at step `at`: t and files are those the
\* steps before it left.
Raised(t, files, fed, at) ==
    [t |-> t, files |-> files, raised |-> TRUE, at |-> at,
     signals |-> <<>>, reason |-> "", fed |-> fed]

\* react, the downtrend tested before the stop loss.
react_return_TrendFirst(price, t, signals) ==
    IF t.trend = DOWN
    THEN [signals |-> <<SELL>>, reason |-> "ongoing downtrend"]
    ELSE IF price <= stop_loss_limit
    THEN [signals |-> <<SELL>>, reason |-> "stop loss"]
    ELSE [signals |-> signals, reason |-> ""]

\* react, its three returns after feed and write_to: the tracker t after the
\* feed, the signals feed returned, the price of the last bar.
react_return(price, t, signals) ==
    IF price <= stop_loss_limit
    THEN [signals |-> <<SELL>>, reason |-> "stop loss"]
    ELSE IF t.trend = DOWN
    THEN [signals |-> <<SELL>>, reason |-> "ongoing downtrend"]
    ELSE [signals |-> signals, reason |-> ""]

\* PositionBroker.react(bars): the tracker and the files after it, whether it
\* raised and where, the signals and the reason it returns, and (history) the
\* signals feed returned.
react(t, sym, files, bars, fault) ==
    IF bars = <<>>
    THEN [t |-> t, files |-> files, raised |-> FALSE, at |-> "",
          signals |-> <<>>, reason |-> "", fed |-> <<>>]
    ELSE IF \E i \in 1..Len(bars) : ~Required(bars[i])
    THEN Raised(t, files, <<>>, "to_stick")
    ELSE LET f == feed(t, [i \in 1..Len(bars) |-> to_stick(bars[i])])
             w == write_to(f.t, sym, files, fault)
             price == quantize(bars[Len(bars)].close, 1)
         IN IF w.raised THEN Raised(f.t, w.files, f.signals, "write_to")
            ELSE [t |-> f.t, files |-> w.files, raised |-> FALSE, at |-> "",
                  signals |-> react_return(price, f.t, f.signals).signals,
                  reason |-> react_return(price, f.t, f.signals).reason,
                  fed |-> f.signals]

\* AlpacaClient.fetch_bars(symbol, since): the bars published for the symbol
\* from the time `since` on.
fetch_bars(sym, mkt, since) ==
    IF sym = Listed
    THEN SelectSeq(mkt, LAMBDA b : b.timestamp >= since)
    ELSE <<>>

\* PinkyTracker(symbol): no data, price Decimal(), and a last_timestamp a
\* hundred days back (0: before every bar).
NewPinky == [data |-> <<>>, price |-> 0, last_timestamp |-> 0]

\* No cache file under data_filename.
NoPinkyFile == [kind |-> "absent", points |-> <<>>]

NoScan ==
    [made |-> FALSE, op |-> "", pre |-> NewPinky, points |-> <<>>,
     raised |-> FALSE, error |-> "", size |-> 0, rows |-> <<>>,
     bricks |-> <<>>, renko_high |-> 0, renko_low |-> 0, digests |-> <<>>]

\* Seeker.main awaits on_start in _open_session; _loop and the jobs of the
\* scheduler are not there yet.
NoCoro ==
    [c \in {"main", "loop", "fast_task", "hourly"} |->
        IF c = "main" THEN "on_start" ELSE IF c = "loop" THEN "none" ELSE "idle"]

\* No signal, no failure, no stop, no _close_session yet.
NoHalt ==
    [signals |-> 0, failures |-> 0, cause |-> "", closes |-> 0,
     not_running |-> FALSE, by |-> ""]

\* TellyPatty.__init__ and read_credentials: no update seen, keep_alive,
\* an empty watchlist.
NewPatty == [last_update_id |-> 0, keep_alive |-> TRUE, watchlist |-> {}]

NoTelly ==
    [made |-> FALSE, updates |-> <<>>, pre |-> NewPatty, replies |-> <<>>]

\* HastyClient.VERBS.
VERBS == {"get", "post", "put", "delete"}

\* What stands for None.
NoValue == [kind |-> "None", name |-> "", items |-> <<>>]

NoAccess ==
    [made |-> FALSE, kind |-> "", attr |-> "", raised |-> FALSE, error |-> <<>>,
     value |-> NoValue, pre |-> [verb \in VERBS |-> 0], outcome |-> "",
     sent |-> <<>>, denied |-> ""]

\* The coroutines that share the event loop: fast_task as the scheduler's
\* job, fast_task as main awaits it, and _loop.
Tasks == {"scheduled", "direct", "loop"}

\* A task's local variables: `since` of track_and_trace, the steps it has
\* still to make once it is resumed, how often it was called.
NoLocal == [since |-> 0, todo |-> <<>>, calls |-> 0]

NoIo ==
    [made |-> FALSE, sym |-> "", found |-> NoFile, others |-> FALSE,
     raised |-> FALSE, loaded |-> FALSE, pre |-> NewTrader, post |-> NewTrader,
     post_symbol |-> "", starts |-> 0]

NoCycle ==
    [made |-> FALSE, bars |-> <<>>, pre |-> NewTrader,
     files |-> [fn \in Filenames |-> NoFile], raised |-> FALSE,
     at |-> "", returned |-> FALSE, signals |-> <<>>, reason |-> "",
     fed |-> <<>>, failures |-> 0, starts |-> 0, order |-> FALSE,
     again |-> FALSE]

-----------------------------------------------------------------------------
(* The tracker fed by its caller *)

NoCall ==
    [pre |-> NewTrader, sticks |-> <<>>, signals |-> <<>>, raised |-> FALSE,
     digests |-> <<>>, trends |-> <<>>, exact |-> TRUE, again |-> FALSE,
     made |-> FALSE]

NoEval ==
    [pre |-> [trend |-> None, strength |-> 0, breakout |-> 0],
     direction |-> None, signal |-> HOLD, made |-> FALSE,
     base |-> [trend |-> None, strength |-> 0], opp |-> 0]

Init ==
    /\ data = NewTrader.data
    /\ bounded = NewTrader.bounded
    /\ brick_size = NewTrader.brick_size
    /\ renko_state = NewTrader.renko_state
    /\ bricks = NewTrader.bricks
    /\ trend = NewTrader.trend
    /\ strength = NewTrader.strength
    /\ breakout = NewTrader.breakout
    /\ market = <<>>
    /\ call = NoCall
    /\ ev = NoEval
    /\ symbol = Listed
    /\ cache = [fn \in Filenames |-> NoFile]
    /\ err_count = 0
    /\ keep_running = FALSE
    /\ io = NoIo
    /\ cycle = NoCycle
    /\ pc = [task \in Tasks |-> "idle"]
    /\ local = [task \in Tasks |-> NoLocal]
    /\ session = [verb \in VERBS |-> 0]
    /\ access = NoAccess
    /\ pinky = NewPinky
    /\ pcache = NoPinkyFile
    /\ scan = NoScan
    /\ scheduler = "new"
    /\ coro = NoCoro
    /\ halt = NoHalt
    /\ patty = NewPatty
    /\ telly = NoTelly

\* The bars from..to of a market.
Window(mkt, from, to) == IF from > to THEN <<>> ELSE SubSeq(mkt, from, to)

\* A call of feed(sticks) on the tracker, the market being mkt after it.
\* History, in call: pre the tracker before the call, sticks its argument,
\* signals and raised its outcome, digests and trends what each bar's digest
\* and each brick's evaluation did, exact whether every call so far passed
\* exactly the bars not passed before (and at least one), again whether the
\* call before passed the same bars.
FeedCall(sticks, mkt, inOrder) ==
    \E r \in {feed(Tracker, sticks)} :
       /\ market' = mkt
       /\ data' = r.t.data
       /\ brick_size' = r.t.brick_size
       /\ renko_state' = r.t.renko_state
       /\ bricks' = r.t.bricks
       /\ trend' = r.t.trend
       /\ strength' = r.t.strength
       /\ breakout' = r.t.breakout
       /\ bounded' = r.t.bounded
       /\ call' = [pre |-> Tracker, sticks |-> sticks, signals |-> r.signals,
                   raised |-> r.raised, digests |-> r.digests,
                   trends |-> r.trends,
                   exact |-> call.exact /\ inOrder,
                   again |-> call.made /\ ~call.raised /\ call.sticks = sticks,
                   made |-> TRUE]
       /\ UNCHANGED <<ev, seekerVars>>

\* The caller fetches the bars since the last one it holds (from), the
\* exchange having published `fresh` more bars meanwhile, and feeds them.
Feed(from, fresh) ==
    LET mkt == market \o fresh
        sticks == Window(mkt, from, Len(mkt))
    IN FeedCall(sticks, mkt, sticks # <<>> /\ from = Len(market) + 1)

\* The sequences of at most n new bars that continue a market of length len.
RECURSIVE FreshBars(_, _)
FreshBars(len, n) ==
    IF n = 0 \/ len >= MaxTime THEN {<<>>}
    ELSE {<<>>} \cup
         { <<CandleStick(len + 1, c, h)>> \o rest :
             c \in Closes, h \in HalfRanges, rest \in FreshBars(len + 1, n - 1) }

\* One cycle of the caller: a window of at most MaxBatch bars that starts no
\* later than the first bar the tracker does not hold.
Poll ==
    \E from \in 1..(Len(market) + 1) :
        \E fresh \in FreshBars(Len(market), MaxBatch) :
            /\ Len(market) + Len(fresh) - from + 1 <= MaxBatch
            /\ Feed(from, fresh)

Next == Poll

Spec == Init /\ [][Next]_vars

-----------------------------------------------------------------------------
(* The tracker fed batches in any order *)

\* The bars a batch can hold: any timestamp of the run, the lowest or the
\* highest close, one range.
BatchBars ==
    { CandleStick(ts, c, h) : ts \in 1..MaxTime, c \in {2496, 2505}, h \in {6} }

\* The batches of at most n bars, in any order of timestamps.
RECURSIVE Batches(_)
Batches(n) ==
    IF n = 0 THEN {<<>>}
    ELSE {<<>>} \cup { <<b>> \o rest : b \in BatchBars, rest \in Batches(n - 1) }

\* feed(sticks) with a batch that no fetch put in order, while the history
\* holds no more than MaxTime bars.
FeedBatch ==
    \E sticks \in Batches(MaxBatch) :
        /\ Len(data) + Len(sticks) <= MaxTime
        /\ FeedCall(sticks, market, FALSE)

NextBatch == FeedBatch

SpecBatch == Init /\ [][NextBatch]_vars

-----------------------------------------------------------------------------
(* The scenario: the same tracker and caller, on the scenario's bars *)

ScenarioBars(len) ==
    IF len >= ScenarioLen THEN {<<>>}
    ELSE {<<>>} \cup
         { <<CandleStick(len + 1, c, h)>> :
             c \in (IF len = 0 THEN ScenarioSeeds ELSE ScenarioCloses),
             h \in ScenarioHalfRanges }

PollScenario ==
    \E from \in 1..(Len(market) + 1) :
        \E fresh \in ScenarioBars(Len(market)) :
            /\ Len(market) + Len(fresh) - from + 1 <= MaxBatch
            /\ Feed(from, fresh)

NextScenario == PollScenario

SpecScenario == Init /\ [][NextScenario]_vars

-----------------------------------------------------------------------------
(* strategy_eval on its own, brick after brick *)

\* strategy_eval(brick) on the tracker, for a brick of direction d. History:
\* base is the trend and strength that stood when the current run of bricks
\* against the trend began, opp the number of bricks of that run.
Eval(d) ==
    LET r == strategy_eval(Tracker, [direction |-> d])
        b == IF breakout = 0
             THEN [trend |-> trend, strength |-> strength]
             ELSE ev.base
        n == IF breakout = 0 THEN 0 ELSE ev.opp
    IN /\ strength < MaxStrength
       /\ trend' = r.t.trend
       /\ strength' = r.t.strength
       /\ breakout' = r.t.breakout
       /\ ev' = [pre |-> [trend |-> trend, strength |-> strength,
                          breakout |-> breakout],
                 direction |-> d, signal |-> r.signal, made |-> TRUE,
                 base |-> b,
                 opp |-> IF b.trend # None /\ d # b.trend THEN n + 1 ELSE 0]
       /\ UNCHANGED <<data, bounded, brick_size, renko_state, bricks, market, call>>
       /\ UNCHANGED seekerVars

NextEval == \E d \in {UP, DOWN} : Eval(d)

SpecEval == Init /\ [][NextEval]_vars

-----------------------------------------------------------------------------
(* The program: started, then polling the bars of its position *)

\* Seeker._open_session, on_start: refresh_positions makes the broker of the
\* open position with PositionBroker.from_order, a new OpenTrader(symbol=sym)
\* that reads its cache file. An error of read_from leaves on_start, and
\* keep_running stays False. History, in io: the file found under the
\* tracker's name, whether a snapshot lay under another name, the tracker
\* before and after read_from.
Start(sym) ==
    /\ io.starts < MaxStarts
    /\ \E r \in {read_from(NewTrader, sym, cache)} :
          /\ data' = r.t.data
          /\ brick_size' = r.t.brick_size
          /\ renko_state' = r.t.renko_state
          /\ bricks' = r.t.bricks
          /\ trend' = r.t.trend
          /\ strength' = r.t.strength
          /\ breakout' = r.t.breakout
          /\ bounded' = r.t.bounded
          /\ symbol' = r.symbol
          /\ err_count' = 0
          /\ keep_running' = ~r.raised
          /\ io' = [made |-> TRUE, sym |-> sym, found |-> r.found,
                    others |-> \E fn \in Filenames \ {filename(sym, Interval)} :
                                   cache[fn].kind = "json",
                    raised |-> r.raised, loaded |-> r.loaded,
                    pre |-> NewTrader, post |-> r.t, post_symbol |-> r.symbol,
                    starts |-> io.starts + 1]
    /\ UNCHANGED <<market, cache, call, ev, cycle, taskVars, sideVars>>

\* OpenTrader.most_recent(signals): the last signal that is not HOLD, and how
\* far from the end it lies.
most_recent(signals) ==
    LET at == {i \in 1..Len(signals) : signals[i] # HOLD}
    IN IF at = {} THEN [signal |-> HOLD, distance |-> 0]
       ELSE LET i == CHOOSE k \in at : \A m \in at : m <= k
            IN [signal |-> signals[i], distance |-> Len(signals) - i]

\* track_and_trace ordering whenever react returned signals, HOLD or not.
AfterReact_AnySignal(signals) ==
    (IF signals # <<>> THEN <<"limit_order">> ELSE <<>>)
    \o (IF signals # <<>> THEN <<"selfie", "say">> ELSE <<>>)

\* The steps of track_and_trace and fast_task after react returned signals.
AfterReact(signals) ==
    (IF most_recent(signals).signal = SELL THEN <<"limit_order">> ELSE <<>>)
    \o (IF signals # <<>> THEN <<"selfie", "say">> ELSE <<>>)

\* Whether the steps of `path` hold client.limit_order.
Ordered(path) == \E i \in 1..Len(path) : path[i] = "limit_order"

\* Seeker.fast_task under error_resilient: track_and_trace fetches the bars
\* since the broker's current_time (the last bar held, or all of them) and
\* passes them to react; an exception is counted, and the ERR_TOLERANCE-th
\* stops every task. History, in cycle: the bars fetched, the tracker before,
\* react's outcome, whether it returned, the count of cycles in a row that
\* write_to failed, the count of starts before it, whether the closing order
\* was submitted, and whether the cycle before submitted one.
FastTask(fresh, fault) ==
    /\ keep_running
    /\ LET mkt == market \o fresh
           since == IF data # <<>> THEN data[Len(data)].timestamp ELSE 1
           bars == fetch_bars(symbol, mkt, since)
       IN \E r \in {react(Tracker, symbol, cache, bars, fault)} :
             /\ market' = mkt
             /\ data' = r.t.data
             /\ brick_size' = r.t.brick_size
             /\ renko_state' = r.t.renko_state
             /\ bricks' = r.t.bricks
             /\ trend' = r.t.trend
             /\ strength' = r.t.strength
             /\ breakout' = r.t.breakout
             /\ bounded' = r.t.bounded
             /\ cache' = r.files
             /\ err_count' = IF r.raised THEN err_count + 1 ELSE err_count
             /\ keep_running' = ~(r.raised /\ err_count + 1 >= ERR_TOLERANCE)
             /\ cycle' = [made |-> TRUE, bars |-> bars, pre |-> Tracker,
                          files |-> cache,
                          raised |-> r.raised, at |-> r.at,
                          returned |-> ~r.raised, signals |-> r.signals,
                          reason |-> r.reason, fed |-> r.fed,
                          failures |-> IF r.at = "write_to"
                                       THEN cycle.failures + 1 ELSE 0,
                          starts |-> io.starts,
                          order |-> ~r.raised /\ Ordered(AfterReact(r.signals)),
                          again |-> cycle.order /\ cycle.starts = io.starts]
    /\ UNCHANGED <<symbol, io, call, ev, taskVars, sideVars>>

\* The bars the exchange can publish between two cycles: none, or one bar
\* closing at 0.1248 (under the stop loss limit) or at 0.12525 (above it),
\* which may have arrived without its close.
Published(len) ==
    IF len >= MaxTime THEN {<<>>}
    ELSE {<<>>} \cup
         { <<Bar(len + 1, c, h)>> : c \in {2496, 2505}, h \in {6} } \cup
         { <<NoClose(Bar(len + 1, c, h))>> : c \in {2505}, h \in {6} }

NextBroker ==
    \/ \E sym \in Symbols : Start(sym)
    \/ \E fresh \in Published(Len(market)) : \E fault \in Faults :
           FastTask(fresh, fault)

SpecBroker == Init /\ [][NextBroker]_vars

-----------------------------------------------------------------------------
(* The broker over a long session: more bars than MAXLEN *)

\* How many times the exchange publishes in a long session.
MaxBursts == 46

\* How many bars the exchange publishes between two cycles of a long session.
BurstSizes == {10}

\* The bars published after `len` bars: one-minute bars closing at 0.12525.
Burst(len) ==
    { [i \in 1..n |-> Bar(len + i, 2505, 6)] :
          n \in {m \in BurstSizes : len + m <= MaxBursts * m} }

NextLong ==
    \/ Start(Listed)
    \/ \E fresh \in Burst(Len(market)) : \E fault \in Faults :
           FastTask(fresh, fault)

SpecLong == Init /\ [][NextLong]_vars

-----------------------------------------------------------------------------
(* HastyClient *)

\* How often one method of the session is called in a run.
MaxCalls == 2

\* What an instance of HastyClient has without __getattr__: the attribute
\* set by __init__, and the members of its class.
Members == {"session", "VERBS", "_rest_call", "_session_call_map"}

\* The attribute names a caller may ask for.
Attrs == VERBS \cup Members \cup {"patch", "invalid_verb"}

\* HastyClient.__getattr__(attr): AttributeError, or _rest_call bound to attr.
getattr(attr) ==
    IF attr \notin VERBS
    THEN [raised |-> TRUE,
          error |-> <<"AttributeError", "Attribute '", attr, "' does not exist.">>,
          value |-> NoValue]
    ELSE [raised |-> FALSE, error |-> <<>>,
          value |-> [kind |-> "partial", name |-> attr, items |-> <<>>]]

\* client.<attr>: what the instance or its class has is found by the normal
\* lookup, and __getattr__ is called only for what is not found.
Lookup(attr) ==
    IF attr \in Members
    THEN [raised |-> FALSE, error |-> <<>>,
          value |-> [kind |-> "member", name |-> attr, items |-> <<>>]]
    ELSE getattr(attr)

\* _session_call_map with session.post under "put".
session_call_map_PutIsPost ==
    [verb \in VERBS |-> IF verb = "put" THEN "post" ELSE verb]

\* HastyClient._session_call_map: the method of the session for each verb.
session_call_map == [verb \in VERBS |-> verb]

\* JSON values: objects, arrays, and the rest.
Scalar == [kind |-> "scalar", name |-> "", items |-> <<>>]
JsonDict(items) == [kind |-> "dict", name |-> "", items |-> items]
JsonList(items) == [kind |-> "list", name |-> "", items |-> items]

\* The bodies a response may carry.
Bodies ==
    {Scalar, JsonDict(<<Scalar>>), JsonList(<<JsonDict(<<Scalar>>), Scalar>>),
     JsonDict(<<JsonList(<<JsonDict(<<>>)>>)>>)}

\* to_namespace(data): every dict a SimpleNamespace, at any depth.
RECURSIVE to_namespace(_)
to_namespace(d) ==
    IF d.kind = "dict"
    THEN [kind |-> "SimpleNamespace", name |-> "",
          items |-> [i \in 1..Len(d.items) |-> to_namespace(d.items[i])]]
    ELSE IF d.kind = "list"
    THEN [kind |-> "list", name |-> "",
          items |-> [i \in 1..Len(d.items) |-> to_namespace(d.items[i])]]
    ELSE d

\* What the session does with a call: it answers, or the call's __aenter__
\* raises (no connection, or an error status under raise_for_status), or
\* response.json() raises.
Outcomes == {"ok", "aenter", "json"}

\* The exceptions the session raises.
Errors == {<<"RuntimeError", "Test error">>, <<"ClientResponseError", "404">>}

\* _rest_call that calls the session again after an error and returns None
\* if it fails again.
rest_call_Retried(ses, verb, outcome, err, body) ==
    LET session_verb == session_call_map[verb]
    IN IF outcome # "ok"
       THEN [session |-> [ses EXCEPT ![session_verb] = @ + 2],
             raised |-> FALSE, error |-> <<>>, value |-> NoValue]
       ELSE [session |-> [ses EXCEPT ![session_verb] = @ + 1],
             raised |-> FALSE, error |-> <<>>, value |-> to_namespace(body)]

\* HastyClient._rest_call(verb, api_url, params, data): the calls made on the
\* session after it, and the response returned or the exception raised.
rest_call(ses, verb, outcome, err, body) ==
    LET session_verb == session_call_map[verb]
        called == [ses EXCEPT ![session_verb] = @ + 1]
    IN IF outcome # "ok"
       THEN [session |-> called, raised |-> TRUE, error |-> err,
             value |-> NoValue]
       ELSE [session |-> called, raised |-> FALSE, error |-> <<>>,
             value |-> to_namespace(body)]

\* client.<attr> is evaluated.
GetAttr(attr) ==
    /\ \E r \in {Lookup(attr)} :
          access' = [made |-> TRUE, kind |-> "getattr", attr |-> attr,
                   raised |-> r.raised, error |-> r.error, value |-> r.value,
                   pre |-> session, outcome |-> "", sent |-> <<>>,
                   denied |-> IF r.raised THEN attr ELSE access.denied]
    /\ UNCHANGED <<data, bounded, brick_size, renko_state, bricks, trend,
                   strength, breakout, market, call, ev, symbol, cache,
                   err_count, keep_running, io, cycle, taskVars, session,
                   pinkyVars, stopVars, tellyVars>>

\* await client.<verb>(api_url, ...): the partial that the lookup returns is
\* called.
Call(verb, outcome, err, body) ==
    /\ session[verb] < MaxCalls
    /\ \E r \in {rest_call(session, Lookup(verb).value.name, outcome, err, body)} :
          /\ session' = r.session
          /\ access' = [made |-> TRUE, kind |-> "call", attr |-> verb,
                      raised |-> r.raised, error |-> r.error, value |-> r.value,
                      pre |-> session, outcome |-> outcome,
                      sent |-> IF outcome = "ok" THEN <<>> ELSE err,
                      denied |-> access.denied]
    /\ UNCHANGED <<data, bounded, brick_size, renko_state, bricks, trend,
                   strength, breakout, market, call, ev, symbol, cache,
                   err_count, keep_running, io, cycle, taskVars, pinkyVars,
                   stopVars, tellyVars>>

NextHasty ==
    \/ \E attr \in Attrs : GetAttr(attr)
    \/ \E verb \in VERBS : \E outcome \in Outcomes : \E err \in Errors :
           \E body \in Bodies : Call(verb, outcome, err, body)

SpecHasty == Init /\ [][NextHasty]_vars

-----------------------------------------------------------------------------
(* PinkyTracker and the scanner *)

\* The closes of the bars the scanner fetches: 0.12500, 0.12275, 0.12730.
PinkyCloses == {2500, 2455, 2546}

\* The brick sizes analyze leaves in self.brick_size: 0.001 and 0.002.
PinkySizes == {20, 40}

\* round(x, self.precision), precision 3: to the nearest 0.001.
Round3(x) == RoundHalfEven(x, 20) * 20

\* asdict(bar): a data point without the key "_cls_name".
AsDict(bar) == [cls_name |-> FALSE, bar |-> bar]

\* ThinkEncoder.default on a CandleStick: asdict and the key "_cls_name".
\* Decimals go out as float(o), which json prints with the digits they had.
ThinkEncoded(stick) == [cls_name |-> TRUE, bar |-> stick]

\* PinkyTracker.feed(data_points): data.extend(CandleStick(**x) for x in
\* data_points) stores the points before the first one that CandleStick
\* does not take (a key that is no field: TypeError); then price and
\* last_timestamp from data[-1], an IndexError if there is none.
pinky_feed(t, points) ==
    LET bad == {i \in 1..Len(points) : points[i].cls_name}
        upto == IF bad = {} THEN Len(points)
                ELSE (CHOOSE i \in bad : \A k \in bad : i <= k) - 1
        data1 == t.data \o [i \in 1..upto |-> points[i].bar]
    IN IF bad # {}
       THEN [t |-> [t EXCEPT !.data = data1], raised |-> TRUE,
             error |-> "TypeError"]
       ELSE IF data1 = <<>>
       THEN [t |-> t, raised |-> TRUE, error |-> "IndexError"]
       ELSE [t |-> [data |-> data1, price |-> data1[Len(data1)].close,
                    last_timestamp |-> data1[Len(data1)].timestamp],
             raised |-> FALSE, error |-> ""]

\* PinkyTracker.read_from(cache): json.loads of the file, without an
\* object_hook, and feed of what it gives.
pinky_read_from(t, file) ==
    IF file.kind = "absent"
    THEN [t |-> t, raised |-> FALSE, error |-> ""]
    ELSE pinky_feed(t, file.points)

\* PinkyTracker.write_to(cache): list(self.data) through ThinkEncoder.
pinky_write_to(t, file) ==
    IF t.data = <<>> THEN file
    ELSE [kind |-> "json",
          points |-> [i \in 1..Len(t.data) |-> ThinkEncoded(t.data[i])]]

\* The fields of the dataclass RenkoBrick of metaflip.
RenkoBrickFields == <<"timestamp", "open", "high", "low", "close", "direction">>

\* RenkoBrick(*args): a dataclass without defaults takes as many arguments
\* as it has fields, and raises TypeError otherwise.
RenkoBrick(args) ==
    IF Len(args) # Len(RenkoBrickFields)
    THEN [raised |-> TRUE, brick |-> <<>>]
    ELSE [raised |-> FALSE, brick |-> args]

\* compute_renko_data, `while row.close >= renko_high + size`.
RECURSIVE WhileUp(_, _, _, _, _)
WhileUp(index, close, high, low, size) ==
    IF close >= high + size
    THEN LET b == RenkoBrick(<<index, high, high + size, "up">>)
         IN IF b.raised
            THEN [raised |-> TRUE, bricks |-> <<>>, high |-> high, low |-> low]
            ELSE LET more == WhileUp(index, close, high + size, high, size)
                 IN [raised |-> more.raised,
                     bricks |-> <<b.brick>> \o more.bricks,
                     high |-> more.high, low |-> more.low]
    ELSE [raised |-> FALSE, bricks |-> <<>>, high |-> high, low |-> low]

\* compute_renko_data, `while row.close <= renko_low - size`.
RECURSIVE WhileDown(_, _, _, _, _)
WhileDown(index, close, high, low, size) ==
    IF close <= low - size
    THEN LET b == RenkoBrick(<<index, low, low - size, "down">>)
         IN IF b.raised
            THEN [raised |-> TRUE, bricks |-> <<>>, high |-> high, low |-> low]
            ELSE LET more == WhileDown(index, close, low, low - size, size)
                 IN [raised |-> more.raised,
                     bricks |-> <<b.brick>> \o more.bricks,
                     high |-> more.high, low |-> more.low]
    ELSE [raised |-> FALSE, bricks |-> <<>>, high |-> high, low |-> low]

\* compute_renko_data, the loop over the rows from row i on. History, in
\* digests: for each row its close, the boundaries before and after it, and
\* the bricks made for it.
RECURSIVE RenkoRows(_, _, _, _, _)
RenkoRows(rows, i, high, low, size) ==
    IF i > Len(rows)
    THEN [raised |-> FALSE, bricks |-> <<>>, high |-> high, low |-> low,
          digests |-> <<>>]
    ELSE LET row == rows[i]
             w == IF row.close >= high + size
                  THEN WhileUp(row.timestamp, row.close, high, low, size)
                  ELSE WhileDown(row.timestamp, row.close, high, low, size)
             d == [close |-> row.close, high |-> high, low |-> low,
                   new_bricks |-> w.bricks, next_high |-> w.high,
                   next_low |-> w.low]
         IN IF w.raised
            THEN [raised |-> TRUE, bricks |-> <<>>, high |-> high, low |-> low,
                  digests |-> <<d>>]
            ELSE LET more == RenkoRows(rows, i + 1, w.high, w.low, size)
                 IN [raised |-> more.raised,
                     bricks |-> IF more.raised THEN <<>>
                                ELSE w.bricks \o more.bricks,
                     high |-> more.high, low |-> more.low,
                     digests |-> <<d>> \o more.digests]

\* PinkyTracker.compute_renko_data(df), df the rows of analyze (one for each
\* bar held) and size the brick size analyze left.
compute_renko_data(rows, size) ==
    LET first_open == rows[1].open
        first_close == rows[1].close
        renko_high == IF first_open < first_close THEN Round3(first_close)
                      ELSE Round3(first_open)
        renko_low == IF first_open < first_close
                     THEN Min(Round3(first_open), renko_high - size)
                     ELSE Min(Round3(first_close), renko_high - size)
    IN RenkoRows(rows, 1, renko_high, renko_low, size)

\* scanner.analyze, the tracer: PinkyTracker(symbol) and read_from(CACHE).
PinkyNew ==
    /\ \E r \in {pinky_read_from(NewPinky, pcache)} :
          /\ pinky' = r.t
          /\ scan' = [NoScan EXCEPT !.made = TRUE, !.op = "read_from",
                                    !.points = pcache.points,
                                    !.raised = r.raised, !.error = r.error]
    /\ UNCHANGED <<data, bounded, brick_size, renko_state, bricks, trend,
                   strength, breakout, market, call, ev, symbol, cache,
                   err_count, keep_running, io, cycle, taskVars, hastyVars, pcache,
                   stopVars, tellyVars>>

\* scanner.analyze, fetch_bars(symbol, since) with since the tracer's
\* last_timestamp, and tracer.feed(map(asdict, bars)): the exchange gives the
\* bars from `since` on.
PinkyFeed(fresh) ==
    /\ Len(pinky.data) <= MaxTime
    /\ LET mkt == market \o fresh
           bars == SelectSeq(mkt, LAMBDA b : b.timestamp >= pinky.last_timestamp)
           points == [i \in 1..Len(bars) |-> AsDict(bars[i])]
       IN \E r \in {pinky_feed(pinky, points)} :
             /\ market' = mkt
             /\ pinky' = r.t
             /\ scan' = [NoScan EXCEPT !.made = TRUE, !.op = "feed",
                                       !.pre = pinky, !.points = points,
                                       !.raised = r.raised, !.error = r.error]
    /\ UNCHANGED <<data, bounded, brick_size, renko_state, bricks, trend,
                   strength, breakout, call, ev, symbol, cache,
                   err_count, keep_running, io, cycle, taskVars, hastyVars, pcache,
                   stopVars, tellyVars>>

\* scanner.analyze, tracer.write_to(CACHE).
PinkyWrite ==
    /\ pcache' = pinky_write_to(pinky, pcache)
    /\ scan' = [NoScan EXCEPT !.made = TRUE, !.op = "write_to", !.pre = pinky]
    /\ UNCHANGED <<data, bounded, brick_size, renko_state, bricks, trend,
                   strength, breakout, market, call, ev, symbol, cache,
                   err_count, keep_running, io, cycle, taskVars, hastyVars, pinky,
                   stopVars, tellyVars>>

\* scanner.analyze, tracer.analyze() and compute_renko_data(df).
PinkyRenko(size) ==
    /\ pinky.data # <<>>
    /\ \E r \in {compute_renko_data(pinky.data, size)} :
          scan' = [NoScan EXCEPT !.made = TRUE, !.op = "compute_renko_data",
                                 !.pre = pinky, !.size = size,
                                 !.rows = pinky.data, !.raised = r.raised,
                                 !.error = IF r.raised THEN "TypeError" ELSE "",
                                 !.bricks = r.bricks, !.renko_high = r.high,
                                 !.renko_low = r.low, !.digests = r.digests]
    /\ UNCHANGED <<data, bounded, brick_size, renko_state, bricks, trend,
                   strength, breakout, market, call, ev, symbol, cache,
                   err_count, keep_running, io, cycle, taskVars, hastyVars, pinky,
                   pcache, stopVars, tellyVars>>

\* The bars the exchange has for the scanner after `len` bars.
PinkyBars(len) ==
    IF len >= MaxTime THEN {<<>>}
    ELSE {<<>>} \cup { <<Bar(len + 1, c, 6)>> : c \in PinkyCloses }

NextPinky ==
    \/ PinkyNew
    \/ \E fresh \in PinkyBars(Len(market)) : PinkyFeed(fresh)
    \/ PinkyWrite
    \/ \E size \in PinkySizes : PinkyRenko(size)

SpecPinky == Init /\ [][NextPinky]_vars

-----------------------------------------------------------------------------
(* The Seeker's tasks on the event loop *)

\* The steps in which a coroutine hands control to the event loop: the awaits
\* that reach a session call of HastyClient, and asyncio.sleep.
Suspends_FeedYields ==
    {"fetch_bars", "extend", "limit_order", "selfie", "say", "get_updates",
     "sleep"}

Suspends ==
    {"fetch_bars", "limit_order", "selfie", "say", "get_updates", "sleep"}

\* The steps of OpenTrader.feed: the timestamp filter, data.extend,
\* make_renko_bricks, and the loop of strategy_eval.
FeedSteps == {"filter", "extend", "make_renko_bricks", "strategy_eval"}

\* The steps of react on bars that are not empty.
ReactSteps ==
    <<"filter", "extend", "make_renko_bricks", "strategy_eval", "write_to">>

\* Where a coroutine that goes through the steps of `path` is suspended
\* next: the index of the first step that hands control over, 0 if none.
NextStop(path) ==
    LET stops == {i \in 1..Len(path) : path[i] \in Suspends}
    IN IF stops = {} THEN 0 ELSE CHOOSE i \in stops : \A k \in stops : i <= k

\* The task goes through `path` until it is suspended or done.
Advance(task, path) ==
    LET stop == NextStop(path)
    IN /\ pc' = [pc EXCEPT ![task] = IF stop = 0 THEN "idle" ELSE path[stop]]
       /\ local' = [local EXCEPT ![task].todo =
                        IF stop = 0 THEN <<>>
                        ELSE SubSeq(path, stop + 1, Len(path))]

\* Seeker.main after Start: _open_session has made the brokers.
OpenSession ==
    /\ io.starts = 0
    /\ Start(Listed)

\* The exchange publishes a bar.
Publish ==
    /\ \E fresh \in Published(Len(market)) \ {<<>>} : market' = market \o fresh
    /\ UNCHANGED <<data, bounded, brick_size, renko_state, bricks, trend,
                   strength, breakout, call, ev, seekerVars>>

\* A fast_task is called, by the scheduler (one instance at a time) or by
\* main (once): track_and_trace takes broker.current_time and awaits
\* fetch_bars.
CallFastTask(task) ==
    /\ keep_running
    /\ task \in {"scheduled", "direct"}
    /\ pc[task] = "idle"
    /\ task = "direct" => local[task].calls = 0
    /\ pc' = [pc EXCEPT ![task] = "fetch_bars"]
    /\ local' = [local EXCEPT ![task] =
                    [since |-> IF data # <<>> THEN data[Len(data)].timestamp
                               ELSE 1,
                     todo |-> <<>>, calls |-> 1]]
    /\ UNCHANGED <<data, bounded, brick_size, renko_state, bricks, trend,
                   strength, breakout, market, call, ev, symbol, cache,
                   err_count, keep_running, io, cycle, sideVars>>

\* The steps of a fast_task from fetch_bars' return on, react's outcome r.
TracePath(r, bars) ==
    IF r.raised THEN <<>>
    ELSE (IF bars = <<>> THEN <<>> ELSE ReactSteps) \o AfterReact(r.signals)

\* fetch_bars returns to a fast_task: react feeds the bars and writes the
\* snapshot, and the task goes on until its next await that suspends it
\* (limit_order, selfie, say) or until fast_task ends. An exception of react
\* ends the task under error_resilient.
ResumeFetched(task) ==
    /\ task \in {"scheduled", "direct"}
    /\ pc[task] = "fetch_bars"
    /\ LET bars == fetch_bars(symbol, market, local[task].since)
       IN \E r \in {react(Tracker, symbol, cache, bars, "none")} :
             /\ data' = r.t.data
             /\ bounded' = r.t.bounded
             /\ brick_size' = r.t.brick_size
             /\ renko_state' = r.t.renko_state
             /\ bricks' = r.t.bricks
             /\ trend' = r.t.trend
             /\ strength' = r.t.strength
             /\ breakout' = r.t.breakout
             /\ cache' = r.files
             /\ err_count' = IF r.raised THEN err_count + 1 ELSE err_count
             /\ keep_running' = ~(r.raised /\ err_count + 1 >= ERR_TOLERANCE)
             /\ cycle' = [made |-> TRUE, bars |-> bars, pre |-> Tracker,
                          files |-> cache,
                          raised |-> r.raised, at |-> r.at,
                          returned |-> ~r.raised, signals |-> r.signals,
                          reason |-> r.reason, fed |-> r.fed,
                          failures |-> 0, starts |-> io.starts,
                          order |-> Ordered(TracePath(r, bars)),
                          again |-> cycle.order /\ cycle.starts = io.starts]
             /\ Advance(task, TracePath(r, bars))
    /\ UNCHANGED <<market, symbol, io, call, ev, sideVars>>

\* A task suspended past fetch_bars is resumed and goes on.
Resume(task) ==
    /\ pc[task] \notin {"idle", "fetch_bars"}
    /\ Advance(task, local[task].todo)
    /\ UNCHANGED <<data, bounded, brick_size, renko_state, bricks, trend,
                   strength, breakout, market, call, ev, symbol, cache,
                   err_count, keep_running, io, cycle, sideVars>>

\* _loop calls background_task while keep_running: get_updates, the commands,
\* then asyncio.sleep.
CallBackground ==
    /\ keep_running
    /\ pc["loop"] = "idle"
    /\ pc' = [pc EXCEPT !["loop"] = "get_updates"]
    /\ local' = [local EXCEPT !["loop"] =
                    [since |-> 0, todo |-> <<"digest_updates", "sleep">>,
                     calls |-> 1]]
    /\ UNCHANGED <<data, bounded, brick_size, renko_state, bricks, trend,
                   strength, breakout, market, call, ev, symbol, cache,
                   err_count, keep_running, io, cycle, sideVars>>

NextTasks ==
    \/ OpenSession
    \/ Publish
    \/ \E task \in Tasks : CallFastTask(task)
    \/ \E task \in Tasks : ResumeFetched(task)
    \/ \E task \in Tasks : Resume(task)
    \/ CallBackground

SpecTasks == Init /\ [][NextTasks]_vars

-----------------------------------------------------------------------------
(* The Seeker's shutdown: main, _loop, the scheduler and its jobs *)

\* How many shutdown signals the process gets.
MaxSignals == 2

\* How many failures the tasks have in all.
MaxErrors == 4

\* The jobs main adds to the scheduler.
Jobs == {"fast_task", "hourly"}

\* How a coroutine called by main or _loop ends: it returns or raises an
\* Exception (a job of the scheduler may be cancelled as well).
Endings == {"returned", "raised"}

\* error_resilient counting the failures in a row: a return resets err_count.
error_resilient_ResetOnSuccess(count, ending) ==
    IF ending = "raised"
    THEN [err_count |-> count + 1, stop |-> count + 1 >= ERR_TOLERANCE]
    ELSE [err_count |-> 0, stop |-> ending = "cancelled"]

\* error_resilient(fn): the err_count it leaves and whether it calls
\* _stop_all_tasks.
error_resilient(count, ending) ==
    IF ending = "raised"
    THEN [err_count |-> count + 1, stop |-> count + 1 >= ERR_TOLERANCE]
    ELSE [err_count |-> count, stop |-> ending = "cancelled"]

\* _loop running on whatever keep_running is.
loop_test_Forever(running) == TRUE

\* _loop, `while self.keep_running`.
loop_test(running) == running

\* AsyncIOScheduler.shutdown(): a running scheduler stops and its executor
\* cancels the jobs in flight; one that is not running (never started, or
\* shut down before) raises, in the caller or in the event loop.
shutdown(state, c) ==
    IF state = "running"
    THEN [scheduler |-> "stopped",
          coro |-> [j \in DOMAIN c |->
                       IF j \in Jobs /\ c[j] = "running" THEN "cancelled"
                       ELSE c[j]],
          not_running |-> FALSE]
    ELSE [scheduler |-> state, coro |-> c, not_running |-> TRUE]

\* What a coroutine under error_resilient leaves when it ends and goes on to
\* `next`: `bye` is background_task's _stop_all_tasks for the command, then
\* comes the one of error_resilient.
Wrapped(who, next, ending, bye) ==
    /\ ending = "raised" => err_count < MaxErrors
    /\ LET e == error_resilient(err_count, ending)
           s0 == [scheduler |-> scheduler,
                  coro |-> [coro EXCEPT ![who] = next], not_running |-> FALSE]
           s1 == IF bye THEN shutdown(s0.scheduler, s0.coro) ELSE s0
           s2 == IF e.stop THEN shutdown(s1.scheduler, s1.coro) ELSE s1
           stop == bye \/ e.stop
           missed == s1.not_running \/ s2.not_running
           why == IF bye THEN "bye"
                  ELSE IF ending = "cancelled" THEN "cancelled" ELSE "tolerance"
       IN /\ err_count' = e.err_count
          /\ keep_running' = (keep_running /\ ~stop)
          /\ scheduler' = s2.scheduler
          /\ coro' = s2.coro
          /\ halt' = [halt EXCEPT
                         !.failures = IF ending = "raised" THEN @ + 1 ELSE @,
                         !.cause = IF keep_running /\ stop THEN why ELSE @,
                         !.not_running = @ \/ missed,
                         !.by = IF missed /\ ~halt.not_running THEN why ELSE @]
    /\ UNCHANGED <<tradeVars, tellyVars>>

\* Seeker.asked_to_stop, the handler of SIGTERM and SIGINT.
AskedToStop ==
    /\ coro["main"] # "done"
    /\ halt.signals < MaxSignals
    /\ \E s \in {shutdown(scheduler, coro)} :
          /\ keep_running' = FALSE
          /\ scheduler' = s.scheduler
          /\ coro' = s.coro
          /\ halt' = [halt EXCEPT
                         !.signals = @ + 1,
                         !.cause = IF keep_running THEN "signal" ELSE @,
                         !.not_running = @ \/ s.not_running,
                         !.by = IF s.not_running /\ ~halt.not_running
                                THEN "signal" ELSE @]
    /\ UNCHANGED <<err_count, tradeVars, tellyVars>>

\* main: on_start returns or raises in _open_session; then the jobs are
\* added, _loop is made a task, the scheduler is started and hourly called.
MainOpened(ok) ==
    /\ coro["main"] = "on_start"
    /\ keep_running' = ok
    /\ scheduler' = "running"
    /\ coro' = [coro EXCEPT !["main"] = "hourly", !["loop"] = "ready"]
    /\ UNCHANGED <<err_count, halt, tradeVars, tellyVars>>

\* main, `await self.hourly()` ends and fast_task is called.
MainHourly(ending) ==
    /\ coro["main"] = "hourly"
    /\ Wrapped("main", "fast_task", ending, FALSE)

\* main, `await self.fast_task()` ends and main awaits the task of _loop.
MainFastTask(ending) ==
    /\ coro["main"] = "fast_task"
    /\ Wrapped("main", "await_task", ending, FALSE)

\* main, `await task` returns: _close_session sets keep_running False and
\* awaits on_stop.
MainClose ==
    /\ coro["main"] = "await_task"
    /\ coro["loop"] = "done"
    /\ keep_running' = FALSE
    /\ coro' = [coro EXCEPT !["main"] = "on_stop"]
    /\ halt' = [halt EXCEPT !.closes = @ + 1,
                            !.cause = IF keep_running THEN "close" ELSE @]
    /\ UNCHANGED <<err_count, scheduler, tradeVars, tellyVars>>

\* main, on_stop returned: `if self.scheduler.running: scheduler.shutdown()`.
MainShutdown ==
    /\ coro["main"] = "on_stop"
    /\ \E s \in {IF scheduler = "running"
                  THEN shutdown(scheduler, [coro EXCEPT !["main"] = "done"])
                  ELSE [scheduler |-> scheduler,
                        coro |-> [coro EXCEPT !["main"] = "done"],
                        not_running |-> FALSE]} :
          /\ scheduler' = s.scheduler
          /\ coro' = s.coro
          /\ halt' = [halt EXCEPT !.not_running = @ \/ s.not_running,
                                  !.by = IF s.not_running /\ ~halt.not_running
                                         THEN "main" ELSE @]
    /\ UNCHANGED <<err_count, keep_running, tradeVars, tellyVars>>

\* _loop, the test of its while: the next background_task, or the end.
LoopTest ==
    /\ coro["loop"] \in {"ready", "sleep"}
    /\ coro' = [coro EXCEPT !["loop"] = IF loop_test(keep_running)
                                        THEN "background" ELSE "done"]
    /\ UNCHANGED <<err_count, keep_running, scheduler, halt, tradeVars,
                   tellyVars>>

\* _loop, background_task ends (with or without the command "bye" among the
\* system commands) and _loop sleeps.
LoopBackground(ending, bye) ==
    /\ coro["loop"] = "background"
    /\ Wrapped("loop", "sleep", ending, bye)

\* The scheduler calls a job that is due and not in flight.
JobStart(j) ==
    /\ scheduler = "running"
    /\ coro[j] = "idle"
    /\ coro' = [coro EXCEPT ![j] = "running"]
    /\ UNCHANGED <<err_count, keep_running, scheduler, halt, tradeVars,
                   tellyVars>>

\* A job in flight ends.
JobEnd(j, ending) ==
    /\ coro[j] = "running"
    /\ Wrapped(j, "idle", ending, FALSE)

\* A job cancelled by the executor gets the CancelledError at its await.
JobCancelled(j) ==
    /\ coro[j] = "cancelled"
    /\ Wrapped(j, "idle", "cancelled", FALSE)

MainSteps ==
    \/ \E ok \in BOOLEAN : MainOpened(ok)
    \/ \E ending \in Endings : MainHourly(ending)
    \/ \E ending \in Endings : MainFastTask(ending)
    \/ MainClose
    \/ MainShutdown

LoopSteps ==
    \/ LoopTest
    \/ \E ending \in Endings : \E bye \in BOOLEAN : LoopBackground(ending, bye)

JobSteps ==
    \/ \E j \in Jobs : JobStart(j)
    \/ \E j \in Jobs : \E ending \in Endings : JobEnd(j, ending)
    \/ \E j \in Jobs : JobCancelled(j)

NextSeeker == AskedToStop \/ MainSteps \/ LoopSteps \/ JobSteps

SpecSeeker == Init /\ [][NextSeeker]_vars

\* The event loop resumes every coroutine whose await is over: those of main
\* and of _loop end (get_updates has its timeout, sleep its delay).
SpecSeekerLive ==
    /\ Init /\ [][NextSeeker]_vars
    /\ WF_vars(MainSteps)
    /\ WF_vars(LoopSteps)


-----------------------------------------------------------------------------
(* TellyPatty: the updates of the chats *)

\* How many updates get_updates returns at once.
MaxUpdates == 2

\* How many updates the chats send in all.
MaxUpdateId == 3

\* The chats that write to the bot: the one of credentials.ini, and another.
Chats == {"own", "other"}

\* TellyPatty.chat_id, read_credentials.
chat_id == "own"

\* The symbols the messages name, in the order sorted() gives them.
Alphabetical == <<"AAPL", "MSFT">>

\* The messages: words and the blanks between them.
Messages ==
    {<<"/bye">>, <<"/show">>, <<"/tail">>, <<"/drop">>, <<"hello">>,
     <<"/tail", " ", "AAPL">>, <<"/tail", " ", "MSFT", " ", "AAPL">>,
     <<"/drop", " ", "AAPL">>}

\* An update of getUpdates: `whole` when it has message.from.username and
\* message.text (a sticker has no text, many senders no username).
Update(id, chat, text, whole) ==
    [update_id |-> id, chat |-> chat, text |-> text, whole |-> whole]

\* message.split(): the words, without the blanks.
split(message) == SelectSeq(message, LAMBDA w : w # " ")

\* parse_command's reply_message = None.
NoReply == [kind |-> "None", words |-> <<>>]

\* ", ".join(sorted(self.watchlist)) or "Empty".
Joined(watchlist) ==
    IF watchlist = {} THEN [kind |-> "Empty", words |-> <<>>]
    ELSE [kind |-> "joined",
          words |-> SelectSeq(Alphabetical, LAMBDA w : w \in watchlist)]

\* The set of the entries of a sequence.
Range(seq) == { seq[i] : i \in 1..Len(seq) }

\* TellyPatty.parse_command(message): the TellyPatty after it and the reply.
parse_command(p, message) ==
    LET cmd == Head(split(message))
        params == Tail(split(message))
    IN IF cmd = "/bye"
       THEN [patty |-> [p EXCEPT !.keep_alive = FALSE], reply |-> NoReply]
       ELSE IF cmd = "/show"
       THEN [patty |-> p, reply |-> Joined(p.watchlist)]
       ELSE IF cmd = "/tail"
       THEN IF params # <<>>
            THEN [patty |-> [p EXCEPT !.watchlist = @ \cup Range(params)],
                  reply |-> NoReply]
            ELSE [patty |-> p,
                  reply |-> [kind |-> "Nothing to follow.", words |-> <<>>]]
       ELSE IF cmd = "/drop"
       THEN IF params # <<>>
            THEN [patty |-> [p EXCEPT !.watchlist = @ \ Range(params)],
                  reply |-> NoReply]
            ELSE [patty |-> p,
                  reply |-> [kind |-> "Nothing to drop.", words |-> <<>>]]
       ELSE [patty |-> p,
             reply |-> [kind |-> "I don't understand", words |-> <<cmd>>]]

\* digest_updates parsing the commands of every chat.
from_chat_AnyChat(update, own) == TRUE

\* digest_updates, `if chat_id == self.chat_id`.
from_chat(update, own) == update.chat = own

\* TellyPatty.digest_updates(data) from update i on: the TellyPatty after
\* it, the replies it sends, and whether it raised (KeyError, on an update
\* that is not whole, after its id was taken).
RECURSIVE digest_updates(_, _, _)
digest_updates(p, updates, i) ==
    IF i > Len(updates)
    THEN [patty |-> p, replies |-> <<>>, raised |-> FALSE]
    ELSE LET update == updates[i]
             p1 == [p EXCEPT !.last_update_id = update.update_id]
         IN IF ~update.whole
            THEN [patty |-> p1, replies |-> <<>>, raised |-> TRUE]
            ELSE LET c == IF from_chat(update, chat_id)
                          THEN parse_command(p1, update.text)
                          ELSE [patty |-> p1, reply |-> NoReply]
                     more == digest_updates(c.patty, updates, i + 1)
                 IN [patty |-> more.patty,
                     replies |-> (IF c.reply # NoReply THEN <<c.reply>>
                                  ELSE <<>>) \o more.replies,
                     raised |-> more.raised]

\* What a chat can send.
Sent(id) ==
    { Update(id, chat, text, TRUE) : chat \in Chats, text \in Messages }
    \cup { Update(id, chat, <<>>, FALSE) : chat \in Chats }

\* What get_updates can return after the update `last`: the next updates, in
\* the order of their ids (a third one is the own chat's "/show").
Polled(last) ==
    { <<u>> : u \in Sent(last + 1) }
    \cup (IF MaxUpdates >= 2
          THEN { <<u, v>> : u \in Sent(last + 1), v \in Sent(last + 2) }
          ELSE {})
    \cup (IF MaxUpdates >= 3
          THEN { <<u, v, w>> : u \in Sent(last + 1), v \in Sent(last + 2),
                               w \in {Update(last + 3, "own", <<"/show">>, TRUE)} }
          ELSE {})

\* get_updates returns and digest_updates goes through the updates.
Digest(updates) ==
    /\ patty.last_update_id + Len(updates) <= MaxUpdateId
    /\ \E r \in {digest_updates(patty, updates, 1)} :
          /\ patty' = r.patty
          /\ telly' = [made |-> TRUE, updates |-> updates, pre |-> patty,
                       replies |-> r.replies]
    /\ UNCHANGED <<tradeVars, err_count, keep_running, stopVars>>

NextTelly == \E updates \in Polled(patty.last_update_id) : Digest(updates)

SpecTelly == Init /\ [][NextTelly]_vars

-----------------------------------------------------------------------------
(* Properties of feed and digest_data_point *)

\* The bricks the last feed call appended.
Emitted == SubSeq(bricks, Len(call.pre.bricks) + 1, Len(bricks))

\* The whole brick sizes by which the close of a digested bar lay above the
\* high boundary, or below the low one, when digest_data_point took it.
JumpUp(d) ==
    IF d.close >= d.high + brick_size THEN (d.close - d.high) \div brick_size ELSE 0

JumpDown(d) ==
    IF d.close <= d.low - brick_size THEN (d.low - d.close) \div brick_size ELSE 0

\* k bricks of one brick size each, stepping from a boundary in one direction.
IsLadder(new_bricks, k, from, step, dir) ==
    /\ Len(new_bricks) = k
    /\ \A i \in 1..k :
          /\ new_bricks[i].direction = dir
          /\ new_bricks[i].open = from + (i - 1) * step
          /\ new_bricks[i].close = from + i * step

\* C1: a bar whose close lies k >= 1 whole brick sizes beyond the boundary
\* makes digest_data_point emit exactly k bricks in direction order, each
\* opening where the one before closed and each one brick size high.
C1_JumpEmitsKBricks ==
    \A j \in 1..Len(call.digests) :
        LET d == call.digests[j]
        IN /\ JumpUp(d) >= 1 =>
                IsLadder(d.new_bricks, JumpUp(d), d.high, brick_size, UP)
           /\ JumpDown(d) >= 1 =>
                IsLadder(d.new_bricks, JumpDown(d), d.low, 0 - brick_size, DOWN)

\* C2: from a new tracker, the bars fed over several calls, each call passing
\* exactly the bars that follow those already passed, leave the bricks, the
\* brick size, the trend, strength and breakout and the renko state that one
\* call with all the bars leaves.
C2_SplitFeedsAgree ==
    (call.made /\ call.exact) =>
        LET one == feed(NewTrader, market).t
        IN /\ bricks = one.bricks
           /\ brick_size = one.brick_size
           /\ trend = one.trend
           /\ strength = one.strength
           /\ breakout = one.breakout
           /\ renko_state = one.renko_state

\* C3: a feed call that passes the bars the call before it passed (a
\* non-empty ascending list) returns no signal and leaves every field of the
\* tracker as it was.
C3_SecondFeedIsNoOp ==
    (call.made /\ call.again /\ call.sticks # <<>>) =>
        /\ ~call.raised
        /\ call.signals = <<>>
        /\ Tracker = call.pre

\* C3's case: the same bars passed a second time, to a tracker whose first
\* call with them had built a brick.
C3_Witness ==
    /\ call.made /\ call.again /\ call.sticks # <<>>
    /\ bricks # <<>>
    /\ call.sticks[Len(call.sticks)] = data[Len(data)]

C8_EveryBrickOpensAtLastClose ==
    call.made =>
        \A i \in 1..(Len(Emitted) - 1) :
            LET x == Emitted[i]
                y == Emitted[i + 1]
            IN /\ y.open = x.close
               /\ (x.direction = UP /\ y.direction = UP) => y.close > x.close
               /\ (x.direction = DOWN /\ y.direction = DOWN) => y.close < x.close

\* C8 amended: among the bricks one feed call emits, a brick that follows one
\* of its own direction opens where that one closed, and closes higher (UP)
\* or lower (DOWN); a brick that follows one of the opposite direction opens
\* where that one opened.
C8_BricksChain ==
    call.made =>
        \A i \in 1..(Len(Emitted) - 1) :
            LET x == Emitted[i]
                y == Emitted[i + 1]
            IN /\ x.direction = y.direction => y.open = x.close
               /\ x.direction # y.direction => y.open = x.open
               /\ (x.direction = UP /\ y.direction = UP) => y.close > x.close
               /\ (x.direction = DOWN /\ y.direction = DOWN) => y.close < x.close

\* C8's case: one call that emitted a brick and then one of the opposite
\* direction.
C8_Witness ==
    /\ call.made
    /\ Len(Emitted) = 2
    /\ Emitted[1].direction # Emitted[2].direction

\* The closes of the scenario, in its order.
ScenarioRun == <<2000000, 2010000, 2024000, 2046000, 2038000>>

MarketCloses == [i \in 1..Len(market) |-> market[i].close]

\* C9: with brick_size = 1.00 and the state seeded high = low = 100.00, the
\* closes 100.5, 101.2, 102.3, 101.9 give no brick at 100.5, an UP brick
\* closing at 101.00 at 101.2, an UP brick closing at 102.00 at 102.3 and none
\* at 101.9; the trend is UP with strength 2 and no signal but HOLD is returned.
C9_Scenario ==
    \A n \in 1..Len(ScenarioRun) :
        (brick_size = 20000 /\ MarketCloses = SubSeq(ScenarioRun, 1, n)) =>
            /\ \A i \in 1..Len(call.signals) : call.signals[i] = HOLD
            /\ Len(bricks) = (IF n <= 2 THEN 0 ELSE IF n = 3 THEN 1 ELSE 2)
            /\ n >= 3 => /\ bricks[1].direction = UP
                         /\ bricks[1].open = 2000000
                         /\ bricks[1].close = 2020000
            /\ n >= 4 => /\ bricks[2].direction = UP
                         /\ bricks[2].open = 2020000
                         /\ bricks[2].close = 2040000
            /\ trend = (IF n <= 2 THEN None ELSE UP)
            /\ strength = Len(bricks)
            /\ breakout = 0
            /\ renko_state.high = 2000000 + Len(bricks) * 20000
            /\ renko_state.low = (IF n <= 3 THEN 2000000 ELSE 2020000)

\* C9's case: the whole scenario has been digested.
C9_Witness ==
    /\ brick_size = 20000
    /\ MarketCloses = ScenarioRun
    /\ Len(bricks) = 2
    /\ strength = 2

\* C11: in every state brick_size >= PRECISION > 0, also after a first feed
\* whose bars all have high = low, so that the quotient by brick_size in
\* digest_data_point is never one by zero.
C11_BrickSizeAtLeastPrecision ==
    /\ PRECISION > 0
    /\ brick_size >= PRECISION

\* C11's case: the first feed passed only bars with high = low, and a later
\* bar was divided by the brick size it left and built a brick.
C11_Witness ==
    /\ call.made /\ ~call.raised
    /\ call.pre.data # <<>>
    /\ \A i \in 1..Len(call.pre.data) :
          call.pre.data[i].high = call.pre.data[i].low
    /\ brick_size = PRECISION
    /\ Emitted # <<>>

\* C12: a feed call on a tracker that holds bars leaves brick_size as it
\* was, whatever the ranges of the bars it passes; only a call that finds the
\* history empty assigns it, and every brick of the tracker spans a whole
\* number of that one brick size.
C12_BrickSizeSetOnce ==
    /\ (call.made /\ call.pre.data # <<>>) => brick_size = call.pre.brick_size
    /\ (call.made /\ brick_size # call.pre.brick_size) =>
            (call.pre.data = <<>> /\ ~call.raised /\ call.pre.bricks = <<>>)
    /\ \A i \in 1..Len(bricks) :
          /\ bricks[i].close # bricks[i].open
          /\ (bricks[i].close - bricks[i].open) % brick_size = 0

\* C12's case: a later call appended bars from which a first feed would have
\* taken another brick size.
C12_Witness ==
    /\ call.made /\ ~call.raised
    /\ call.pre.data # <<>>
    /\ Len(data) > Len(call.pre.data)
    /\ HalfAverage(call.sticks) # brick_size
    /\ bricks # <<>>

\* C13: feed with no bar returns the empty list, raises nothing and leaves
\* every field of the tracker as it was, in every state of the tracker, the
\* new one with no history included.
C13_EmptyFeedIsNoOp ==
    (call.made /\ call.sticks = <<>>) =>
        /\ ~call.raised
        /\ call.signals = <<>>
        /\ Tracker = call.pre

\* C14: the timestamps of the bars in the history rise strictly: feed accepts
\* no bar whose timestamp is not greater than that of every bar accepted
\* before it, in an earlier call, in the same batch or in the first feed.
C14_TimestampsRise ==
    \A i \in 1..(Len(data) - 1) : data[i].timestamp < data[i + 1].timestamp

-----------------------------------------------------------------------------
(* Properties of write_to, read_from and react *)

\* The fields of a tracker that == compares: a deque equals another of the
\* same elements whatever their maxlen.
Fields(t) == [t EXCEPT !.bounded = TRUE]

\* C15: a snapshot that write_to stored and read_from loaded into a new
\* tracker of the same key gives back the history, the renko state, the
\* brick size, the bricks, the trend, strength and breakout of the tracker
\* that wrote it, every decimal as it was, and feed([]) on it returns [].
C15_RoundTripExact ==
    (io.made /\ io.loaded) =>
        /\ Fields(io.post) = Fields(io.found.origin.t)
        /\ io.post_symbol = io.found.origin.symbol
        /\ ~feed(io.post, <<>>).raised
        /\ feed(io.post, <<>>).signals = <<>>

\* C16: read_from that finds no file under the tracker's name raises nothing
\* and leaves every field of the tracker as it was.
C16_MissingFileIsColdStart ==
    (io.made /\ io.found.kind = "absent") =>
        /\ ~io.raised
        /\ ~io.loaded
        /\ io.post = io.pre
        /\ io.post_symbol = io.sym

\* C16's case: the program started with no file under its tracker's name and
\* went on polling with the new tracker.
C16_Witness ==
    /\ io.made
    /\ io.found.kind = "absent"
    /\ keep_running
    /\ cycle.made
    /\ data # <<>>

C18_CorruptFileIsMiss ==
    (io.made /\ io.found.kind = "truncated") =>
        /\ ~io.raised
        /\ ~io.loaded
        /\ io.post = io.pre

\* C19: a cycle whose write_to failed keeps the tracker as feed left it,
\* returns the signals of the cycle and leaves the polling running, however
\* many cycles in a row the write fails.
C19_WriteFailureTolerated ==
    (cycle.made /\ cycle.at = "write_to") =>
        /\ Tracker = feed(cycle.pre,
                          [i \in 1..Len(cycle.bars) |-> to_stick(cycle.bars[i])]).t
        /\ cycle.returned
        /\ keep_running

\* C20: of a batch that holds a bar without a required field only that bar is
\* skipped: no error ends the call, and the tracker is as feed leaves it on
\* the other bars of the batch.
C20_OnlyBadBarSkipped ==
    (cycle.made /\ \E i \in 1..Len(cycle.bars) : ~Required(cycle.bars[i])) =>
        LET good == SelectSeq(cycle.bars, Required)
        IN /\ ~cycle.raised
           /\ Tracker = feed(cycle.pre,
                             [i \in 1..Len(good) |-> to_stick(good[i])]).t

-----------------------------------------------------------------------------
(* Properties of strategy_eval *)

\* zone of the specification: floor(log_3(x - 1)) for x > 1, else 0.
Zone(x) == IF x > 1 THEN FloorLog3(x - 1) ELSE 0

\* C4: from trend T with strength s and breakout 0, with a = zone(s), the
\* first a bricks against T in a row return HOLD and leave trend T; the
\* (a+1)-th flips the trend, returns the new trend's signal and leaves
\* strength = a + 1 and breakout = 0.
C4_FlipAtZonePlusOne ==
    (ev.made /\ ev.base.trend # None /\ ev.opp >= 1) =>
        LET a == Zone(ev.base.strength)
        IN /\ ev.opp <= a + 1
           /\ ev.opp <= a => (trend = ev.base.trend /\ ev.signal = HOLD)
           /\ ev.opp = a + 1 => /\ trend = REVERSE(ev.base.trend)
                                /\ ev.signal = as_signal(trend)
                                /\ strength = a + 1
                                /\ breakout = 0

\* One brick against a trend that has breakout 0 returns HOLD and leaves the
\* trend, when the strength before it is at least least.
HoldsOneContraryBrick(least) ==
    (/\ ev.made
     /\ ev.pre.trend # None
     /\ ev.pre.strength >= least
     /\ ev.pre.breakout = 0
     /\ ev.direction # ev.pre.trend) =>
        (ev.signal = HOLD /\ trend = ev.pre.trend)

\* C5 as claimed: a trend with strength >= 1 and breakout 0 never changes on
\* one brick of the opposite direction.
C5_NeverFlipsOnOneBrick == HoldsOneContraryBrick(1)

\* C5 amended: a trend with strength >= 4 and breakout 0 never changes on one
\* brick of the opposite direction.
C5_HoldsFromStrengthFour == HoldsOneContraryBrick(4)

\* C5's case: one brick against a trend of strength >= 4 was held.
C5_Witness ==
    /\ ev.made
    /\ ev.pre.trend # None
    /\ ev.pre.strength >= 4
    /\ ev.pre.breakout = 0
    /\ ev.direction # ev.pre.trend
    /\ ev.signal = HOLD

\* The first brick ever sets trend to its direction, leaves breakout 0 and
\* returns HOLD, with strength s after it.
FirstBrickLeaves(s) ==
    (ev.made /\ ev.pre.trend = None) =>
        /\ trend = ev.direction
        /\ strength = s
        /\ breakout = 0
        /\ ev.signal = HOLD

\* C6 as claimed: the first brick ever leaves strength = 0.
C6_FirstBrickStrengthZero == FirstBrickLeaves(0)

\* C6 amended: the first brick ever leaves strength = 1.
C6_FirstBrickStrengthOne == FirstBrickLeaves(1)

\* C6's case: the first brick has been evaluated.
C6_Witness == ev.made /\ ev.pre.trend = None /\ trend = ev.direction

\* C10: at every strength x the tolerance zone_log(x) is floor(log_3(x - 1))
\* when x > 1 and 0 otherwise.
C10_ZoneLogIsFloorLog3 == zone_log(strength) = Zone(strength)

\* The brick of the last strategy_eval went against the trend and did not
\* bring breakout above the tolerance.
Held ==
    /\ ev.pre.trend # None
    /\ ev.direction # ev.pre.trend
    /\ ev.pre.breakout + 1 <= zone_log(ev.pre.strength)

\* C26: a brick against the trend that does not confirm a reversal leaves
\* trend and strength as they were and adds exactly 1 to breakout; a brick
\* with the trend adds 1 to strength and sets breakout to 0.
C26_BrickCounts ==
    ev.made =>
        /\ Held => /\ trend = ev.pre.trend
                   /\ strength = ev.pre.strength
                   /\ breakout = ev.pre.breakout + 1
        /\ (ev.direction = ev.pre.trend) => /\ strength = ev.pre.strength + 1
                                            /\ breakout = 0
                                            /\ trend = ev.pre.trend

\* A second brick in a row against the trend was held.
C26_Witness == ev.made /\ Held /\ ev.pre.breakout = 1 /\ breakout = 2

\* C27: after every strategy_eval 0 <= breakout <= zone(strength),
\* strength >= 1 and trend is UP or DOWN: once set, it is never None again.
C27_CountersInRange ==
    ev.made =>
        /\ 0 <= breakout
        /\ breakout <= Zone(strength)
        /\ breakout <= zone_log(strength)
        /\ strength >= 1
        /\ trend \in {UP, DOWN}

\* breakout stands at the tolerance of the strength, two bricks or more.
C27_Witness ==
    /\ ev.made
    /\ breakout >= 2
    /\ breakout = Zone(strength)

\* The last strategy_eval returned BUY only for an UP brick and SELL only for
\* a DOWN brick.
SignalWithBrick ==
    /\ ev.signal = BUY => ev.direction = UP
    /\ ev.signal = SELL => ev.direction = DOWN

\* C28 as stated: trend changes only on a brick opposite to the current
\* trend, to that brick's direction; BUY is returned only for an UP brick,
\* SELL only for a DOWN brick; and a signal other than HOLD is returned
\* exactly when trend changed.
C28_SignalIffTrendChanged ==
    ev.made =>
        /\ trend # ev.pre.trend =>
               /\ ev.pre.trend # None /\ ev.direction = REVERSE(ev.pre.trend)
               /\ trend = ev.direction
        /\ SignalWithBrick
        /\ (ev.signal # HOLD) <=> (trend # ev.pre.trend)

\* C28, amended: on the first brick trend goes from None to the brick's
\* direction and HOLD is returned; on every later brick trend changes only if
\* the brick is opposite to it, to the brick's direction, and a signal other
\* than HOLD is returned exactly when it changed; BUY is returned only for an
\* UP brick, SELL only for a DOWN brick.
C28_SignalIffTrendReversed ==
    ev.made =>
        /\ ev.pre.trend = None => (trend = ev.direction /\ ev.signal = HOLD)
        /\ ev.pre.trend # None =>
               /\ trend # ev.pre.trend =>
                      /\ ev.direction = REVERSE(ev.pre.trend)
                      /\ trend = ev.direction
               /\ (ev.signal # HOLD) <=> (trend # ev.pre.trend)
        /\ SignalWithBrick

\* A DOWN brick turned an UP trend and SELL was returned.
C28_Witness ==
    ev.made /\ ev.pre.trend = UP /\ trend = DOWN /\ ev.signal = SELL

-----------------------------------------------------------------------------
(* Properties of the tracker's state *)

\* The last n elements of a sequence.
Newest(seq, n) == SubSeq(seq, Max(1, Len(seq) - n + 1), Len(seq))

\* The bars of the last cycle that feed added to the history.
Added ==
    LET sticks == [i \in 1..Len(cycle.bars) |-> to_stick(cycle.bars[i])]
    IN IF cycle.pre.data = <<>> THEN sticks ELSE NewSticks(cycle.pre, sticks)

\* The last cycle fed bars to the tracker and returned, and the tracker is
\* still the one it fed.
Fed ==
    cycle.made /\ cycle.returned /\ cycle.bars # <<>> /\ cycle.starts = io.starts

\* C21: in every reachable state of a tracker, after a restore from the cache
\* too, the history holds at most MAXLEN bars, and after a cycle that fed new
\* bars it holds the newest MAXLEN of the bars it held and the new ones, the
\* newest last.
C21_HistoryWithinMaxlen ==
    /\ Len(data) <= MAXLEN
    /\ Fed => data = Newest(cycle.pre.data \o Added, MAXLEN)

\* A tracker that was never restored keeps to MAXLEN and evicts the oldest.
C21_EvictsWhenNeverRestored ==
    (bounded /\ Fed) =>
        /\ Len(data) <= MAXLEN
        /\ data = Newest(cycle.pre.data \o Added, MAXLEN)

\* A cycle evicted bars from a history that was full.
C21_Evicted ==
    bounded /\ Fed /\ Len(cycle.pre.data) + Len(Added) > MAXLEN

\* C22: a step of the tracker's caller leaves every brick the tracker held at
\* its index, unchanged: bricks only grows, by appending.
C22_BricksOnlyAppended ==
    [][/\ Len(bricks') >= Len(bricks)
       /\ SubSeq(bricks', 1, Len(bricks)) = bricks]_vars

\* A feed call appended bricks to a tracker that held some.
C22_Witness ==
    call.made /\ call.pre.bricks # <<>> /\ Len(bricks) > Len(call.pre.bricks)

\* C29: in every reachable state renko_state.low <= renko_state.high, and
\* high - low is a whole multiple of brick_size, zero or more, and zero only
\* while no brick has been emitted.
C29_BoundariesOnGrid ==
    /\ renko_state.low <= renko_state.high
    /\ (renko_state.high - renko_state.low) % brick_size = 0
    /\ (renko_state.high = renko_state.low) => bricks = <<>>

\* C30: right after a bar is digested its close lies strictly between
\* low - brick_size and high + brick_size, the boundaries as the digest left
\* them: every whole brick the close had crossed was consumed.
C30_CloseWithinOneBrick ==
    call.made =>
        \A j \in 1..Len(call.digests) :
            LET d == call.digests[j]
            IN /\ d.next_low - brick_size < d.close
               /\ d.close < d.next_high + brick_size

\* A bar was digested whose close lay two brick sizes or more outside the
\* boundaries.
C30_Witness ==
    /\ call.made
    /\ \E j \in 1..Len(call.digests) :
           JumpUp(call.digests[j]) >= 2 \/ JumpDown(call.digests[j]) >= 2

-----------------------------------------------------------------------------
(* Properties of the tasks *)

\* C23: whatever the interleaving of the scheduled fast_task, the fast_task
\* main awaits and the background loop, no two of them are inside
\* OpenTrader.feed at once: no feed is begun while another is unfinished.
C23_FeedsNeverOverlap ==
    \A a, b \in Tasks :
        (a # b) => ~(pc[a] \in FeedSteps /\ pc[b] \in FeedSteps)

\* A feed was made while both fast tasks were under way, one of them
\* resumed after the other had taken its `since`.
C23_Witness ==
    /\ pc["scheduled"] # "idle"
    /\ pc["direct"] # "idle"
    /\ cycle.made /\ cycle.returned /\ cycle.bars # <<>>

-----------------------------------------------------------------------------
(* Properties of HastyClient *)

\* The last call on the client called the session's method of its own name
\* once, and no other.
CalledOnce ==
    (access.made /\ access.kind = "call") =>
        \A verb \in VERBS :
            session[verb] = access.pre[verb] + IF verb = access.attr THEN 1 ELSE 0

\* The last attribute access raised the AttributeError of __getattr__.
Denied ==
    /\ access.raised
    /\ access.error =
           <<"AttributeError", "Attribute '", access.attr, "' does not exist.">>
    /\ session = access.pre

\* C24 as stated: every attribute but get, post, put and delete raises
\* AttributeError, and a call of a verb calls the session's method of that
\* name once and no other.
C24_AllButVerbsRaise ==
    /\ (access.made /\ access.kind = "getattr" /\ access.attr \notin VERBS) => Denied
    /\ CalledOnce

\* C24, amended: every attribute that the client does not have by itself
\* (session, VERBS, _rest_call, _session_call_map) and that is none of get,
\* post, put and delete raises AttributeError; a verb gives a callable and
\* raises nothing; and a call of a verb calls the session's method of that
\* name once and no other.
C24_UnknownAttributesRaise ==
    /\ (access.made /\ access.kind = "getattr") =>
           IF access.attr \in VERBS
           THEN ~access.raised /\ access.value.kind = "partial"
                /\ access.value.name = access.attr
           ELSE IF access.attr \in Members THEN ~access.raised
           ELSE Denied
    /\ CalledOnce

\* A verb was called for the second time after an unknown attribute had
\* raised.
C24_Witness ==
    /\ access.made /\ access.kind = "call" /\ access.attr = "put"
    /\ access.pre["put"] = 1
    /\ access.denied = "invalid_verb"

\* C25: an exception that the session raises during a REST call leaves the
\* call as it is: the caller gets that exception and no response, and the
\* session was called once.
C25_SessionErrorPropagates ==
    (access.made /\ access.kind = "call" /\ access.outcome # "ok") =>
        /\ access.raised
        /\ access.error = access.sent
        /\ access.value = NoValue
        /\ session[access.attr] = access.pre[access.attr] + 1

\* response.json() raised in a call.
C25_Witness ==
    access.made /\ access.kind = "call" /\ access.outcome = "json" /\ access.raised

-----------------------------------------------------------------------------
(* Properties of PinkyTracker *)

\* The whole brick sizes by which the close of a row lay beyond the boundary
\* when compute_renko_data came to it.
PinkyJump(d) ==
    IF d.close >= d.high + scan.size THEN (d.close - d.high) \div scan.size
    ELSE IF d.close <= d.low - scan.size THEN (d.low - d.close) \div scan.size
    ELSE 0

\* C31: compute_renko_data emits for a bar whose close is k brick sizes
\* beyond the boundary exactly k bricks, each brick_size high and each opening
\* where the one before it closed, and leaves renko_high - renko_low =
\* brick_size after it emitted.
C31_PinkyJumpEmitsKBricks ==
    (scan.made /\ scan.op = "compute_renko_data") =>
        /\ ~scan.raised
        /\ \A j \in 1..Len(scan.digests) :
               LET d == scan.digests[j]
                   b == d.new_bricks
               IN /\ Len(b) = PinkyJump(d)
                  /\ \A i \in 1..Len(b) :
                         /\ b[i][3] - b[i][2] \in {scan.size, 0 - scan.size}
                         /\ i > 1 => b[i][2] = b[i - 1][3]
                  /\ b # <<>> => d.next_high - d.next_low = scan.size

\* C32: feed leaves out every data point that is not newer than the last bar
\* held, and raises nothing for it: whether the tracker was restored from its
\* cache file or not, no bar is in its data twice.
C32_PinkyNoBarTwice ==
    /\ \A i, j \in 1..Len(pinky.data) :
           i < j => pinky.data[i].timestamp < pinky.data[j].timestamp
    /\ (scan.made /\ scan.op = "read_from") => ~scan.raised

-----------------------------------------------------------------------------
(* Properties of PositionBroker.react *)

\* The price react makes of the last bar of the cycle.
LastPrice == quantize(cycle.bars[Len(cycle.bars)].close, 1)

-----------------------------------------------------------------------------
(* Properties of track_and_trace *)

\* C34: track_and_trace submits the closing order in exactly the cycles in
\* which the most recent entry of react's result that is not HOLD is SELL; it
\* does not look at the orders of earlier cycles, so every cycle that fetched
\* a bar and leaves the trend DOWN submits one.
C34_ClosingOrderEachCycle ==
    (cycle.made /\ cycle.starts = io.starts) =>
        /\ cycle.order <=>
               (cycle.returned /\ most_recent(cycle.signals).signal = SELL)
        /\ (cycle.returned /\ cycle.bars # <<>> /\ trend = DOWN) => cycle.order

\* Two cycles running in a downtrend, each with its closing order.
C34_Witness ==
    /\ cycle.made /\ cycle.starts = io.starts
    /\ cycle.order /\ cycle.again
    /\ cycle.pre.trend = DOWN /\ trend = DOWN

-----------------------------------------------------------------------------
(* Properties of the Seeker's shutdown *)

\* C35: the failures of fast_task, background_task and hourly add up in
\* err_count, which no return resets; the failure that makes it
\* ERR_TOLERANCE sets keep_running False, and from then on _loop starts no
\* background_task and ends.
C35_ToleranceStopsLoop ==
    /\ [](err_count = halt.failures)
    /\ [](err_count >= ERR_TOLERANCE => ~keep_running)
    /\ [][(coro["loop"] # "background" /\ coro["loop"]' = "background")
            => (keep_running /\ err_count < ERR_TOLERANCE)]_vars
    /\ (err_count >= ERR_TOLERANCE) ~> (coro["loop"] = "done")

\* The third failure stopped the Seeker and _loop has ended.
C35_Witness ==
    /\ err_count = ERR_TOLERANCE /\ halt.cause = "tolerance"
    /\ ~keep_running /\ coro["loop"] = "done"

\* C36: whatever the order of the signal handler, the command "bye", the
\* cancellations and the failures, scheduler.shutdown is not called on a
\* scheduler that is not running.
C36_ShutdownOnlyWhenRunning == ~halt.not_running

\* C37: once keep_running went False, for whatever cause, main leaves its
\* loop and runs _close_session, once.
C37_ClosesOnceAfterStop ==
    /\ [](halt.closes <= 1)
    /\ (halt.cause # "") ~> (halt.closes = 1)

\* main has run _close_session after a stop by the command "bye".
C37_Witness ==
    /\ halt.cause = "bye" /\ halt.closes = 1
    /\ coro["main"] \in {"on_stop", "done"}

-----------------------------------------------------------------------------
(* Properties of TellyPatty.digest_updates *)

\* The updates of the last digest_updates that came from the chat `chat`.
Of(chat) == { i \in 1..Len(telly.updates) : telly.updates[i].chat = chat }

\* The last digest_updates without the updates it got from other chats.
OwnOnly ==
    SelectSeq(telly.updates, LAMBDA u : u.chat = chat_id \/ ~u.whole)

\* C38: digest_updates runs the commands of the configured chat alone: the
\* watchlist, keep_alive and the replies after it are those the same updates
\* give without the ones of other chats, and last_update_id is the id of the
\* last update it took, of whatever chat.
C38_OnlyOwnChatCommands ==
    telly.made =>
        /\ \E r \in {digest_updates(telly.pre, OwnOnly, 1)} :
               /\ patty.watchlist = r.patty.watchlist
               /\ patty.keep_alive = r.patty.keep_alive
               /\ telly.replies = r.replies
        /\ (\A i \in 1..Len(telly.updates) : telly.updates[i].chat # chat_id) =>
               /\ patty.watchlist = telly.pre.watchlist
               /\ patty.keep_alive = telly.pre.keep_alive
               /\ telly.replies = <<>>
        /\ (\A i \in 1..Len(telly.updates) : telly.updates[i].whole) =>
               patty.last_update_id =
                   telly.updates[Len(telly.updates)].update_id

\* Another chat sent "/bye" last: nothing but last_update_id moved.
C38_Witness ==
    /\ telly.made
    /\ \E i \in Of("other") :
          /\ i = Len(telly.updates)
          /\ telly.updates[i].whole /\ telly.updates[i].text = <<"/bye">>
          /\ patty.last_update_id = telly.updates[i].update_id
    /\ patty.keep_alive

====
